---- MODULE Spec2Model ----
(***************************************************************************)
(* A model of desitarget's bright-source masking (brightmask.py and the    *)
(* geometry primitives of geomask.py).                                     *)
(*                                                                         *)
(* Coordinates.  The catalogs of the model cover a field of a few arcsec   *)
(* on the celestial equator, so cos(Dec) = 1 and an angular separation is  *)
(* the Euclidean length of the (RA, Dec) offset.  Positions and radii are  *)
(* integers in units of 1/Arcsec of an arcsecond; products that do not fit *)
(* a 32-bit integer are carried as two-limb naturals (W* operators).       *)
(***************************************************************************)
EXTENDS Integers, Sequences, FiniteSets, TLC

VARIABLES
    pc,          \* position of the run
    objs,        \* the bright-source catalog handed to the mask builder
    bands,       \* the bands argument of the mask builder
    maglim,      \* the maglim argument of the mask builder
    targs,       \* the target catalog (sequence of target records)
    sourcemask,  \* the mask catalog (sequence of mask records)
    inonly_arg,  \* the inonly argument of is_in_bright_mask
    nperradius,  \* the Nperradius argument of generate_safe_locations
    res,         \* what the operation under study returned
    cov,         \* indices of the catalog already handled by shard runs
    acc,         \* results accumulated over the shard runs
    nshards,     \* number of shard runs so far
    zcat,        \* the zcat argument of make_mtl (given or None, and its rows)
    obscon,      \* the obscon argument of make_mtl (set of condition names)
    survey,      \* the survey that the target columns of make_mtl belong to
    scxtargs,    \* the array of secondary targets
    primtargs    \* the primary matches read from priminfodir

vars == <<pc, objs, bands, maglim, targs, sourcemask, inonly_arg, nperradius,
          res, cov, acc, nshards, zcat, obscon, survey, scxtargs, primtargs>>

\* the arguments of the builder, left alone by every other operation
builderArgs == <<objs, bands, maglim>>

\* zcat = None
NoZcat == [given |-> FALSE, rows |-> <<>>]

mtlArgs == <<zcat, obscon, survey>>

\* the arguments of make_mtl and the secondary targets in the runs that have none
NoMtlArgs ==
    /\ zcat = NoZcat /\ obscon = {} /\ survey = "main"
    /\ scxtargs = <<>> /\ primtargs = <<>>

(***************************************************************************)
(* Arithmetic                                                              *)
(***************************************************************************)
\* model units per arcsecond (the code converts arcsec to degrees by /3600)
Arcsec == 10000

Abs(x) == IF x < 0 THEN -x ELSE x
Max2(a, b) == IF a >= b THEN a ELSE b
Min2(a, b) == IF a <= b THEN a ELSE b
Sign(x) == IF x > 0 THEN 1 ELSE IF x < 0 THEN -1 ELSE 0
\* ceil(a / b) for b > 0
CeilDiv(a, b) == -((-a) \div b)
\* a / b rounded to the nearest integer, b > 0
RoundDiv(a, b) == (2 * a + b) \div (2 * b)

RECURSIVE Gcd(_, _)
Gcd(a, b) == IF b = 0 THEN a ELSE Gcd(b, a % b)

\* x * x as the two-limb natural <<hi, lo>> = hi * 2^30 + lo, for |x| < 2^30
WSq(x) ==
    LET a   == Abs(x)
        a1  == a \div 32768
        a0  == a % 32768
        mid == 2 * a1 * a0
        lo  == (mid % 32768) * 32768 + a0 * a0
    IN  <<a1 * a1 + (mid \div 32768) + (lo \div 1073741824), lo % 1073741824>>
WAdd(u, v) == <<u[1] + v[1] + ((u[2] + v[2]) \div 1073741824), (u[2] + v[2]) % 1073741824>>
WLtOrEq(u, v) == u[1] < v[1] \/ (u[1] = v[1] /\ u[2] <= v[2])
WLt(u, v) == u[1] < v[1] \/ (u[1] = v[1] /\ u[2] < v[2])
WLe(u, v) == ~WLt(v, u)

\* the largest x in lo..hi with x*x + y*y <= a*a + b*b
RECURSIVE SqrtSearch(_, _, _, _, _)
SqrtSearch(a, b, y, lo, hi) ==
    IF lo >= hi THEN lo
    ELSE LET mid == (lo + hi + 1) \div 2
         IN  IF WLe(WAdd(WSq(mid), WSq(y)), WAdd(WSq(a), WSq(b)))
             THEN SqrtSearch(a, b, y, mid, hi)
             ELSE SqrtSearch(a, b, y, lo, mid - 1)

\* floor(sqrt(n)) for 0 <= n < 2^31
RECURSIVE IsqrtSearch(_, _, _)
IsqrtSearch(n, lo, hi) ==
    IF lo >= hi THEN lo
    ELSE LET mid == (lo + hi + 1) \div 2
         IN  IF mid * mid <= n THEN IsqrtSearch(n, mid, hi)
             ELSE IsqrtSearch(n, lo, mid - 1)
Isqrt(n) == IsqrtSearch(n, 0, Min2(n, 46340))

\* np.hypot(a, b), rounded down to the unit, for |a|, |b| < 2^15
Hypot(a, b) == Isqrt(a * a + b * b)

(***************************************************************************)
(* Fixed-point trigonometry: values scaled by TrigScale, angles given as   *)
(* the fraction k/den of a full turn.                                      *)
(***************************************************************************)
TrigScale == 10000
PiScaled == 31416

\* sin(x) for x in [0, pi/2], x and the result scaled by TrigScale (Taylor series)
SinQ(x) ==
    LET x2 == (x * x) \div TrigScale
        t3 == ((x * x2) \div TrigScale) \div 6
        t5 == ((t3 * x2) \div TrigScale) \div 20
        t7 == ((t5 * x2) \div TrigScale) \div 42
        t9 == ((t7 * x2) \div TrigScale) \div 72
    IN  Min2(TrigScale, x - t3 + t5 - t7 + t9)

SinT(k, den) ==
    LET kk == k % den
    IN  IF 4 * kk = 0 \/ 4 * kk = 2 * den THEN 0
        ELSE IF 4 * kk = den THEN TrigScale
        ELSE IF 4 * kk = 3 * den THEN -TrigScale
        ELSE IF 4 * kk < den THEN SinQ((2 * PiScaled * kk) \div den)
        ELSE IF 4 * kk < 2 * den THEN SinQ((PiScaled * (den - 2 * kk)) \div den)
        ELSE IF 4 * kk < 3 * den THEN -SinQ((PiScaled * (2 * kk - den)) \div den)
        ELSE -SinQ((2 * PiScaled * (den - kk)) \div den)

CosT(k, den) == SinT(4 * k + den, 4 * den)

(***************************************************************************)
(* Geometry primitives (geomask.py)                                        *)
(***************************************************************************)
\* ellipticity components are integers in units of 1/EllDen
EllDen == 3000
\* cos and sin of the position angle are carried as cn/TrigDen and sn/TrigDen
TrigDen == 5
maxab == 1000

\* (1 + e) / (1 - e) without the cap at maxab
AxisRatioUncapped(e) ==
    IF e < EllDen THEN <<(EllDen + e) \div Gcd(EllDen + e, EllDen - e),
                         (EllDen - e) \div Gcd(EllDen + e, EllDen - e)>>
    ELSE <<maxab, 1>>

\* the axis ratio ab of ellipse_matrix as the reduced fraction <<num, den>>
AxisRatio(e) ==
    LET raw == IF e < EllDen THEN <<EllDen + e, EllDen - e>> ELSE <<maxab, 1>>
        cl  == IF raw[1] > maxab * raw[2] THEN <<maxab, 1>> ELSE raw
        g   == Gcd(cl[1], cl[2])
    IN  <<cl[1] \div g, cl[2] \div g>>

\* <<ct, st>> * TrigDen for theta = arctan2(e2, e1) / 2, by the half-angle formulas
\* (arctan2(0, 0) = 0; e2 = 0 and e1 < 0 give theta = pi/2)
PositionAngle(e1, e2) ==
    LET HalfAngle(e) ==
            IF e = 0 THEN <<TrigDen, 0>>
            ELSE <<Isqrt(((e + e1) * TrigDen * TrigDen) \div (2 * e)),
                   (IF e2 < 0 THEN -1 ELSE 1)
                       * Isqrt(((e - e1) * TrigDen * TrigDen) \div (2 * e))>>
    IN  HalfAngle(Hypot(e1, e2))

\* The matrix T = r_deg * [[ct/ab, st], [-st/ab, ct]] as the integer matrix m with
\* the scalar k/d in front: T = (k / d) * m.
ellipse_matrix(r, e1, e2) ==
    LET \* cs = <<ct, st>> * TrigDen; ab = the axis ratio b/a as a fraction
        Matrix(cs, ab) ==
            [k |-> r, d |-> ab[1] * TrigDen,
             m |-> << <<cs[1] * ab[2], cs[2] * ab[1]>>,
                      <<-cs[2] * ab[2], cs[1] * ab[1]>> >>]
    IN  Matrix(PositionAngle(e1, e2), AxisRatio(Hypot(e1, e2)))

\* linspace(0, 2*pi, nloc)[i], i = 0..nloc-1, as the fraction <<k, den>> of a turn
Linspace2Pi(nloc, i) == IF nloc = 1 THEN <<0, 1>> ELSE <<i, nloc - 1>>

\* ellipse_boundary: the nloc boundary points as a sequence of [RA, DEC]
ellipse_boundary(RAcen, DECcen, r, e1, e2, nloc) ==
    LET \* the center plus T applied to the unit vector <<vs, vc>> / TrigScale
        Pt(T, vs, vc) ==
            [RA  |-> RAcen
                       + RoundDiv(T.k * RoundDiv(T.m[1][1] * vs + T.m[1][2] * vc, T.d),
                                  TrigScale),
             DEC |-> DECcen
                       + RoundDiv(T.k * RoundDiv(T.m[2][1] * vs + T.m[2][2] * vc, T.d),
                                  TrigScale)]
        \* the point at parametric angle a (a fraction of a turn)
        At(T, a) == Pt(T, SinT(a[1], a[2]), CosT(a[1], a[2]))
        Boundary(T) == [i \in 1..nloc |-> At(T, Linspace2Pi(nloc, i - 1))]
    IN  Boundary(ellipse_matrix(r, e1, e2))

\* is_in_ellipse for one point: val is the returned boolean; err is TRUE when
\* np.linalg.inv is handed a singular matrix and raises LinAlgError
is_in_ellipse(ra, dec, RAcen, DECcen, r, e1, e2) ==
    LET dra  == ra - RAcen
        ddec == dec - DECcen
        \* Ginv = (d / (k * det)) * adj(m); with g = gcd(d, |det|) the transformed
        \* offsets dx and dy carry the denominator k * det / g
        Inside(G, det, g) ==
            IF G.k = 0 \/ det = 0 THEN [err |-> TRUE, val |-> FALSE]
            ELSE [err |-> FALSE,
                  val |-> WLt(WAdd(WSq((G.d \div g) * (G.m[2][2] * dra - G.m[1][2] * ddec)),
                                   WSq((G.d \div g) * (G.m[1][1] * ddec - G.m[2][1] * dra))),
                              WSq(G.k * (det \div g)))]
        Inverse(G, det) == Inside(G, det, Gcd(G.d, Abs(det)))
        Transform(G) == Inverse(G, G.m[1][1] * G.m[2][2] - G.m[1][2] * G.m[2][1])
    IN  Transform(ellipse_matrix(r, e1, e2))

\* sphere_circle_ra_off on the equatorial field: the RA offset of the point of the
\* small circle of radius theta around centdec that lies at declination decloc;
\* the np.clip sends a declination off the circle to offset 0
sphere_circle_ra_off(theta, centdec, decloc) ==
    IF Abs(decloc - centdec) >= theta THEN 0
    ELSE SqrtSearch(theta, 0, decloc - centdec, 0, theta)

(***************************************************************************)
(* The crossmatch engine (brightmask.py, is_in_bright_mask)                *)
(***************************************************************************)
psflike(t) == t \in {"PSF", "PSF "}
rexlike(t) == t \in {"REX", "REX "}

RECURSIVE SeqMax(_)
SeqMax(s) == IF Len(s) = 1 THEN s[1] ELSE Max2(s[1], SeqMax(Tail(s)))

\* squared angular separation of two positions
Sep2(p, q) == WAdd(WSq(p.RA - q.RA), WSq(p.DEC - q.DEC))

\* the separation of p and q is within radius (the bound of the spatial join)
SepLessEq(p, q, radius) == radius >= 0 /\ WLe(Sep2(p, q), WSq(radius))

\* d2d.arcsec < radius, for the separation d2d of positions p and q
SepLessOrOn(p, q, radius) == radius > 0 /\ WLe(Sep2(p, q), WSq(radius))
SepLess(p, q, radius) == radius > 0 /\ WLt(Sep2(p, q), WSq(radius))

\* cmask.search_around_sky(ctargs, maxrad): the (target, mask) index pairs within
\* maxrad of each other, as the sequence of [t, m]
search_around_sky(ctargs, cmask, maxrad) ==
    LET nm  == Len(cmask)
        all == [i \in 1..(Len(ctargs) * nm) |->
                    [t |-> ((i - 1) \div nm) + 1, m |-> ((i - 1) % nm) + 1]]
        Within(p) == SepLessEq(ctargs[p.t], cmask[p.m], maxrad)
    IN  SelectSeq(all, Within)

\* maxrad: the search bound of the spatial join
MaxRad(masks, inonly) ==
    IF inonly THEN SeqMax([i \in 1..Len(masks) |-> masks[i].IN_RADIUS])
    ELSE SeqMax([i \in 1..Len(masks) |-> masks[i].NEAR_RADIUS])

\* flags[idtargs[w]] = True on top of the flags of the ellipse pass
CircleAssignOverwrite(flags, pairs, w) ==
    [t \in DOMAIN flags |-> \E p \in w : pairs[p].t = t]
CircleAssignByPair(flags, pairs, w) ==
    [t \in DOMAIN flags |-> flags[t] \/ t \in w]
CircleAssign(flags, pairs, w) ==
    [t \in DOMAIN flags |-> flags[t] \/ \E p \in w : pairs[p].t = t]

is_in_bright_mask(tg, masks, inonly) ==
    LET nt     == Len(tg)
        allF   == [t \in 1..nt |-> FALSE]
        maxrad == MaxRad(masks, inonly)
        Ell(pairs, p, radius) ==
            is_in_ellipse(tg[pairs[p].t].RA, tg[pairs[p].t].DEC,
                          masks[pairs[p].m].RA, masks[pairs[p].m].DEC,
                          radius, masks[pairs[p].m].E1, masks[pairs[p].m].E2)
        \* the flags from the joined (target, mask) pairs
        Flags(pairs) ==
            LET np == Len(pairs)
                rex_or_psf == [p \in 1..np |->
                                 rexlike(masks[pairs[p].m].TYPE)
                                     \/ psflike(masks[pairs[p].m].TYPE)]
                w_ellipse  == {p \in 1..np : ~rex_or_psf[p]}
                raised == \E p \in w_ellipse :
                              Ell(pairs, p, masks[pairs[p].m].IN_RADIUS).err
                                  \/ (~inonly /\ Ell(pairs, p, masks[pairs[p].m].NEAR_RADIUS).err)
                in_ell   == [t \in 1..nt |-> \E p \in w_ellipse :
                                pairs[p].t = t
                                    /\ Ell(pairs, p, masks[pairs[p].m].IN_RADIUS).val]
                near_ell == [t \in 1..nt |-> \E p \in w_ellipse :
                                pairs[p].t = t
                                    /\ Ell(pairs, p, masks[pairs[p].m].NEAR_RADIUS).val]
                w_in   == {p \in 1..np : rex_or_psf[p]
                             /\ SepLess(tg[pairs[p].t], masks[pairs[p].m],
                                        masks[pairs[p].m].IN_RADIUS)}
                w_near == {p \in 1..np : rex_or_psf[p]
                             /\ SepLess(tg[pairs[p].t], masks[pairs[p].m],
                                        masks[pairs[p].m].NEAR_RADIUS)}
            IN  IF np = 0 THEN [status |-> "ok", in_mask |-> allF,
                                near_mask |-> IF inonly THEN <<>> ELSE allF]
                ELSE IF raised
                THEN [status |-> "LinAlgError", in_mask |-> <<>>, near_mask |-> <<>>]
                ELSE [status |-> "ok",
                      in_mask |-> CircleAssign(in_ell, pairs, w_in),
                      near_mask |-> IF inonly THEN <<>>
                                    ELSE CircleAssign(near_ell, pairs, w_near)]
    IN  Flags(search_around_sky(tg, masks, maxrad))

(***************************************************************************)
(* Catalogs of the crossmatch runs                                         *)
(***************************************************************************)
MaxTargs == 2
MaxMasks == 2

SeqsUpTo(S, n) == UNION {[1..k -> S] : k \in 1..n}

Pos(ra, dec) == [RA |-> ra, DEC |-> dec]

\* target positions: on and around the radii of the masks below
TargPos ==
    {Pos(0, 0), Pos(4 * Arcsec, 0), Pos(7 * Arcsec, 0), Pos(12 * Arcsec, 0),
     Pos(0, 4 * Arcsec), Pos(3 * Arcsec, 4 * Arcsec)}

\* a mask record as make_bright_source_mask lays it out; NEAR_RADIUS = 2 * IN_RADIUS
Mask(ra, dec, inrad, e1, e2, type) ==
    [RA |-> ra, DEC |-> dec, IN_RADIUS |-> inrad, NEAR_RADIUS |-> 2 * inrad,
     E1 |-> e1, E2 |-> e2, TYPE |-> type]

MaskSet ==
    {Mask(0, 0, 5 * Arcsec, 0, 0, "PSF"),
     Mask(6 * Arcsec, 0, 2 * Arcsec, 0, 0, "REX"),
     Mask(0, 0, 5 * Arcsec, 1000, 0, "EXP"),
     Mask(6 * Arcsec, 0, 5 * Arcsec, -280, 960, "DEV"),
     Mask(0, 0, 0, 0, 0, "EXP")}

\* the catalog of one mask (in = 5", near = 10") and targets at 0", 4", 7", 12"
ExampleMasks == <<Mask(0, 0, 5 * Arcsec, 0, 0, "PSF")>>
ExampleTargs == <<Pos(0, 0), Pos(4 * Arcsec, 0), Pos(7 * Arcsec, 0), Pos(12 * Arcsec, 0)>>

NoResult == [status |-> "none", in_mask |-> <<>>, near_mask |-> <<>>]

InitCatalogs(positions, masks) ==
    /\ \/ /\ targs \in SeqsUpTo(positions, MaxTargs)
          /\ sourcemask \in SeqsUpTo(masks, MaxMasks)
       \/ /\ targs = ExampleTargs
          /\ sourcemask = ExampleMasks
    /\ inonly_arg \in BOOLEAN
    /\ nperradius = 0
    /\ objs = <<>> /\ bands = <<>> /\ maglim = <<>> /\ NoMtlArgs
    /\ res = NoResult
    /\ cov = {}
    /\ acc = NoResult
    /\ nshards = 0

(***************************************************************************)
(* One call of is_in_bright_mask                                           *)
(***************************************************************************)
InitCross == pc = "cross" /\ InitCatalogs(TargPos, MaskSet)

RunCrossmatch ==
    /\ pc = "cross"
    /\ res' = is_in_bright_mask(targs, sourcemask, inonly_arg)
    /\ pc' = "crossed"
    /\ UNCHANGED <<builderArgs, mtlArgs, scxtargs, primtargs, targs, sourcemask, inonly_arg, nperradius, cov, acc, nshards>>

NextCross == RunCrossmatch

SpecCross == InitCross /\ [][NextCross]_vars

CircleOnly == \A m \in 1..Len(sourcemask) :
                 psflike(sourcemask[m].TYPE) \/ rexlike(sourcemask[m].TYPE)

\* C1: against a catalog of circle-tested (PSF/REX) masks only, a target is
\* flagged in_mask iff some mask center lies at a separation strictly below that
\* mask's IN_RADIUS, and near_mask iff some mask center lies at a separation
\* strictly below that mask's NEAR_RADIUS.
C1_CircleStrict ==
    (pc = "crossed" /\ CircleOnly) =>
        /\ res.status = "ok"
        /\ \A t \in 1..Len(targs) :
              res.in_mask[t] <=>
                  \E m \in 1..Len(sourcemask) :
                      WLt(Sep2(targs[t], sourcemask[m]), WSq(sourcemask[m].IN_RADIUS))
        /\ ~inonly_arg =>
              \A t \in 1..Len(targs) :
                  res.near_mask[t] <=>
                      \E m \in 1..Len(sourcemask) :
                          WLt(Sep2(targs[t], sourcemask[m]), WSq(sourcemask[m].NEAR_RADIUS))

\* the example catalog has been crossmatched and carries the expected flags
C1_Witness ==
    /\ pc = "crossed" /\ ~inonly_arg
    /\ targs = ExampleTargs /\ sourcemask = ExampleMasks
    /\ res.in_mask = <<TRUE, TRUE, FALSE, FALSE>>
    /\ res.near_mask = <<TRUE, TRUE, TRUE, FALSE>>

\* whether mask m contains target t at the given radius, by the test of its shape
Contains(t, m, radius) ==
    IF psflike(m.TYPE) \/ rexlike(m.TYPE)
    THEN WLt(Sep2(t, m), WSq(radius))
    ELSE is_in_ellipse(t.RA, t.DEC, m.RA, m.DEC, radius, m.E1, m.E2).val

\* C2: when is_in_bright_mask returns, a target's in_mask (near_mask) flag is
\* TRUE iff at least one mask of either shape kind contains it at the IN (NEAR)
\* radius; in particular a flag of the ellipse pass survives the circle pass, and
\* a target that no mask contains is FALSE in both outputs.
C2_OrMerge ==
    (pc = "crossed" /\ res.status = "ok") =>
        /\ \A t \in 1..Len(targs) :
              res.in_mask[t] <=>
                  \E m \in 1..Len(sourcemask) :
                      Contains(targs[t], sourcemask[m], sourcemask[m].IN_RADIUS)
        /\ ~inonly_arg =>
              \A t \in 1..Len(targs) :
                  res.near_mask[t] <=>
                      \E m \in 1..Len(sourcemask) :
                          Contains(targs[t], sourcemask[m], sourcemask[m].NEAR_RADIUS)

\* a target inside an ellipse-tested mask and outside the circle-tested mask of
\* the same catalog keeps its flag, next to a target that no mask contains
C2_Witness ==
    /\ pc = "crossed" /\ res.status = "ok" /\ ~inonly_arg
    /\ Len(sourcemask) = 2 /\ Len(targs) = 2
    /\ ~psflike(sourcemask[1].TYPE) /\ ~rexlike(sourcemask[1].TYPE)
    /\ rexlike(sourcemask[2].TYPE)
    /\ Contains(targs[1], sourcemask[1], sourcemask[1].IN_RADIUS)
    /\ ~Contains(targs[1], sourcemask[2], sourcemask[2].NEAR_RADIUS)
    /\ res.in_mask = <<TRUE, FALSE>>
    /\ res.near_mask = <<TRUE, FALSE>>

(***************************************************************************)
(* Sharded runs of is_in_bright_mask                                       *)
(***************************************************************************)
\* the rows of catalog cat at the index set S, in catalog order
RECURSIVE Rows(_, _)
Rows(cat, S) ==
    IF S = {} THEN <<>>
    ELSE LET i == CHOOSE x \in S : \A y \in S : x <= y
         IN  <<cat[i]>> \o Rows(cat, S \ {i})

\* position of index i among the index set S
RowOf(S, i) == Cardinality({j \in S : j <= i})

\* the flags of a shard run written back to the rows S of the full-length array
Scatter(full, S, part) ==
    [t \in DOMAIN full |-> IF t \in S THEN part[RowOf(S, t)] ELSE full[t]]

\* element-wise OR of two flag arrays
OrArrays(a, b) == [t \in DOMAIN a |-> a[t] \/ b[t]]

AllFalse(n) == [t \in 1..n |-> FALSE]

\* the catalogs of the sharded runs: targets inside, between and outside the radii
\* of a mask of each kind
ShardTargPos == {Pos(0, 0), Pos(7 * Arcsec, 0), Pos(0, 4 * Arcsec)}
ShardMaskSet ==
    {Mask(0, 0, 5 * Arcsec, 0, 0, "PSF"),
     Mask(6 * Arcsec, 0, 2 * Arcsec, 0, 0, "REX"),
     Mask(0, 0, 5 * Arcsec, 1000, 0, "EXP"),
     Mask(0, 0, 0, 0, 0, "EXP")}

InitShards(tag) == pc = tag /\ InitCatalogs(ShardTargPos, ShardMaskSet)

\* the single run over the whole catalogs
RunWhole(from, to) ==
    /\ pc = from
    /\ res' = is_in_bright_mask(targs, sourcemask, inonly_arg)
    /\ acc' = [status |-> "ok", in_mask |-> AllFalse(Len(targs)),
               near_mask |-> IF inonly_arg THEN <<>> ELSE AllFalse(Len(targs))]
    /\ pc' = to
    /\ UNCHANGED <<builderArgs, mtlArgs, scxtargs, primtargs, targs, sourcemask, inonly_arg, nperradius, cov, nshards>>

\* one shard of targets against the whole mask catalog; its flags are written
\* to the shard's rows of the recombined arrays
RunTargetShard ==
    /\ pc = "tshards"
    /\ \E S \in (SUBSET (1..Len(targs) \ cov)) \ {{}} :
          \E r \in {is_in_bright_mask(Rows(targs, S), sourcemask, inonly_arg)} :
              /\ acc' = IF r.status # "ok" \/ acc.status # "ok"
                        THEN [status |-> "LinAlgError", in_mask |-> <<>>, near_mask |-> <<>>]
                        ELSE [status |-> "ok",
                              in_mask |-> Scatter(acc.in_mask, S, r.in_mask),
                              near_mask |-> IF inonly_arg THEN <<>>
                                            ELSE Scatter(acc.near_mask, S, r.near_mask)]
              /\ cov' = cov \cup S
              /\ pc' = IF cov \cup S = 1..Len(targs) THEN "tmerged" ELSE "tshards"
    /\ nshards' = nshards + 1
    /\ UNCHANGED <<builderArgs, mtlArgs, scxtargs, primtargs, targs, sourcemask, inonly_arg, nperradius, res>>

NextTShard == RunWhole("twhole", "tshards") \/ RunTargetShard

SpecTShard == InitShards("twhole") /\ [][NextTShard]_vars

\* the whole target catalog against one non-empty shard of masks; its flags are
\* OR-ed into the merged arrays
RunMaskShard ==
    /\ pc = "mshards"
    /\ \E S \in (SUBSET (1..Len(sourcemask) \ cov)) \ {{}} :
          \E r \in {is_in_bright_mask(targs, Rows(sourcemask, S), inonly_arg)} :
              /\ acc' = IF r.status # "ok" \/ acc.status # "ok"
                        THEN [status |-> "LinAlgError", in_mask |-> <<>>, near_mask |-> <<>>]
                        ELSE [status |-> "ok",
                              in_mask |-> OrArrays(acc.in_mask, r.in_mask),
                              near_mask |-> IF inonly_arg THEN <<>>
                                            ELSE OrArrays(acc.near_mask, r.near_mask)]
              /\ cov' = cov \cup S
              /\ pc' = IF cov \cup S = 1..Len(sourcemask) THEN "mmerged" ELSE "mshards"
    /\ nshards' = nshards + 1
    /\ UNCHANGED <<builderArgs, mtlArgs, scxtargs, primtargs, targs, sourcemask, inonly_arg, nperradius, res>>

NextMShard == RunWhole("mwhole", "mshards") \/ RunMaskShard

SpecMShard == InitShards("mwhole") /\ [][NextMShard]_vars

\* C7: for every partition of the target catalog into shards, run in any order,
\* the recombined per-target flags are those of the single run over the whole
\* target catalog (and the sharded runs raise exactly when the single run does).
C7_TargetShards ==
    pc = "tmerged" => acc = res

\* the example catalog split into four shards of one target, recombined into the
\* flags of the single run
C7_Witness ==
    /\ pc = "tmerged" /\ nshards = 4 /\ ~inonly_arg
    /\ targs = ExampleTargs
    /\ acc.status = "ok"
    /\ acc.in_mask = <<TRUE, TRUE, FALSE, FALSE>>
    /\ acc.near_mask = <<TRUE, TRUE, TRUE, FALSE>>
    /\ acc = res

\* C8: for every partition of the mask catalog into non-empty shards, the
\* element-wise OR of the shard runs' arrays equals the arrays of the run against
\* the whole mask catalog.
C8_MaskShards ==
    pc = "mmerged" => acc = res

\* the run against the whole mask catalog has raised while the runs against each
\* of its shards have returned and been merged
C8_Witness ==
    /\ pc = "mmerged" /\ nshards = 2
    /\ res.status = "LinAlgError"
    /\ acc.status = "ok" /\ acc.in_mask = <<TRUE>>

\* C8 restricted to whole runs that return: the OR of the shard runs' arrays
\* equals the arrays of the run against the whole mask catalog
C8_MaskShardsWhenReturned ==
    (pc = "mmerged" /\ res.status = "ok") => acc = res

(***************************************************************************)
(* The mask builder (brightmask.py, make_bright_source_mask and            *)
(* make_bright_star_mask).  A flux is [pos, dex]: 10^(dex/4) nanomaggies   *)
(* when pos, and not positive otherwise, so that log10 is exact.           *)
(* Magnitudes are carried in units of 1/8 mag, magnitude limits in mmag.   *)
(***************************************************************************)
\* infac = 0.5 and nearfac = 1./infac as fractions <<numerator, denominator>>
infac == <<1, 2>>
nearfac == <<infac[2], infac[1]>>

\* desitarget.targets.encode_targetid: an injective packing of its arguments
encode_targetid(objid, brickid, release, sky) == <<release, brickid, objid, sky>>

NoFlux == [pos |-> FALSE, dex |-> 0]

\* flux > fluxlim with fluxlim = 10.**((22.5 - maglim) / 2.5)
AboveFluxlim(flux, mlim) == flux.pos /\ 625 * flux.dex > 22500 - mlim

\* the flux of the first band
FluxFirst(f, g) == f
\* the larger of two fluxes
FluxMax2(f, g) ==
    IF ~g.pos THEN f
    ELSE IF ~f.pos THEN g
    ELSE IF f.dex >= g.dex THEN f ELSE g

\* mags = 22.5 - 2.5 * log10(fluxmax), times 8
Mag8(flux) == 180 - 5 * flux.dex

\* infac * (0.0802 * mags * mags - 1.860 * mags + 11.625) * 60. arcsec, for the
\* magnitude q / 8
tycho_in_radius(q) ==
    RoundDiv(infac[1] * (6015 * q * q - 1116000 * q + 55800000), infac[2] * 8)

\* near_radius = in_radius * nearfac
TimesInfac(in_radius) == (in_radius * infac[1]) \div infac[2]
near_radius(in_radius) == (in_radius * nearfac[1]) \div nearfac[2]

\* the mask record of one retained source; fl is its fluxes in the bands used
MaskRecord(o, fl) ==
    LET wdev == o.SHAPEDEV_R > o.SHAPEEXP_R
        fluxmax == IF Len(fl) = 1 THEN fl[1] ELSE FluxMax2(fl[1], fl[2])
        in_radius == IF psflike(o.TYPE) THEN tycho_in_radius(Mag8(fluxmax))
                     ELSE IF wdev THEN o.SHAPEDEV_R ELSE o.SHAPEEXP_R
    IN  [RA |-> o.RA, DEC |-> o.DEC,
         TARGETID |-> encode_targetid(o.OBJID, o.BRICKID, o.RELEASE, 0),
         IN_RADIUS |-> in_radius, NEAR_RADIUS |-> near_radius(in_radius),
         E1 |-> IF wdev THEN o.SHAPEDEV_E1 ELSE o.SHAPEEXP_E1,
         E2 |-> IF wdev THEN o.SHAPEDEV_E2 ELSE o.SHAPEEXP_E2,
         TYPE |-> o.TYPE]

\* bands no longer than maglim
AtMostAsLong(bnds, mlim) == Len(bnds) <= Len(mlim)
\* the negation of len(bandnames) != len(maglim)
SameLength(bnds, mlim) == Len(bnds) = Len(mlim)

\* what a builder hands back: its status and rows, whether a catalog was read
\* and whether the output file was written
Outcome(status, rows, read, written) ==
    [status |-> status, rows |-> rows, read |-> read, written |-> written]

\* collect_bright_sources: the rows of the sweeps (one file per row) with any
\* band brighter than its limit; outfile is "outfilename is not None"
collect_bright_sources(bnds, mlim, sweeps, outfile) ==
    LET ok(o) == \E i \in 1..Len(bnds) : AboveFluxlim(o.FLUX[bnds[i]], mlim[i])
        Collected(kept) ==
            IF Len(kept) = 0 THEN Outcome("IOError", <<>>, TRUE, FALSE)
            ELSE Outcome("ok", kept, TRUE, outfile)
    IN  IF Len(sweeps) = 0 THEN Outcome("IOError", <<>>, FALSE, FALSE)
        ELSE IF ~SameLength(bnds, mlim) THEN Outcome("IOError", <<>>, FALSE, FALSE)
        ELSE Collected(SelectSeq(sweeps, ok))

\* make_bright_source_mask: catalog is the content of infilename when infile
\* ("infilename is not None"), and the content of the sweeps otherwise
make_bright_source_mask(bnds, mlim, catalog, infile, outfile) ==
    LET \* the fluxes of the bands used, zeroed where NOBS = 0
        fluxes(o) == [i \in 1..Len(bnds) |->
                         IF o.NOBS[bnds[i]] = 0 THEN NoFlux ELSE o.FLUX[bnds[i]]]
        ok(o) == \E i \in 1..Len(bnds) : AboveFluxlim(fluxes(o)[i], mlim[i])
        Records(kept) == [i \in 1..Len(kept) |-> MaskRecord(kept[i], fluxes(kept[i]))]
        Build(src) ==
            IF src.status # "ok" THEN src
            ELSE Outcome("ok", Records(SelectSeq(src.rows, ok)), TRUE, outfile)
    IN  IF ~SameLength(bnds, mlim) THEN Outcome("IOError", <<>>, FALSE, FALSE)
        ELSE Build(IF infile THEN Outcome("ok", catalog, TRUE, FALSE)
                   ELSE collect_bright_sources(bnds, mlim, catalog, outfile))

make_bright_star_mask(bnds, mlim, catalog, infile, outfile) ==
    LET IsStar(m) == psflike(m.TYPE)
        Stars(made, wstar) ==
            IF Len(wstar) > 0 THEN Outcome("ok", wstar, made.read, outfile)
            ELSE Outcome("-1", <<>>, made.read, FALSE)
        Made(made) ==
            IF made.status # "ok" THEN made ELSE Stars(made, SelectSeq(made.rows, IsStar))
    IN  Made(make_bright_source_mask(bnds, mlim, catalog, infile, FALSE))

MaxSrcs == 2

\* a source of the sweeps: position, type, G and R fluxes with their NOBS, the
\* exponential and de Vaucouleurs shapes, and the identity columns
Src(ra, type, fg, fr, ng, nr, expshape, devshape, objid) ==
    [RA |-> ra, DEC |-> 0, TYPE |-> type,
     FLUX |-> [G |-> fg, R |-> fr], NOBS |-> [G |-> ng, R |-> nr],
     SHAPEEXP_R |-> expshape[1], SHAPEEXP_E1 |-> expshape[2], SHAPEEXP_E2 |-> expshape[3],
     SHAPEDEV_R |-> devshape[1], SHAPEDEV_E1 |-> devshape[2], SHAPEDEV_E2 |-> devshape[3],
     OBJID |-> objid, BRICKID |-> 1, RELEASE |-> 3000]

Flux(dex) == [pos |-> TRUE, dex |-> dex]

SrcSet ==
    {\* a 10th magnitude star, and one whose shape columns are not zero
     Src(0, "PSF", NoFlux, Flux(20), 1, 1, <<0, 0, 0>>, <<0, 0, 0>>, 1),
     Src(0, "PSF", Flux(22), Flux(18), 1, 1, <<Arcsec, 300, -300>>, <<0, 0, 0>>, 2),
     \* galaxies led by the exponential and by the de Vaucouleurs profile
     Src(Arcsec, "EXP", Flux(18), Flux(19), 1, 2, <<3 * Arcsec, 1000, 0>>, <<0, 0, 0>>, 3),
     Src(Arcsec, "DEV", Flux(18), Flux(19), 2, 1,
         <<Arcsec, 600, 0>>, <<4 * Arcsec, -280, 960>>, 4),
     Src(Arcsec, "REX", Flux(16), Flux(17), 1, 1, <<Arcsec, 0, 0>>, <<0, 0, 0>>, 5),
     \* a galaxy with no measured size
     Src(2 * Arcsec, "EXP", Flux(18), Flux(19), 1, 1, <<0, 0, 0>>, <<0, 0, 0>>, 6),
     \* a faint star, and a bright glitch in a band that was never observed
     Src(2 * Arcsec, "PSF", Flux(8), Flux(8), 1, 1, <<0, 0, 0>>, <<0, 0, 0>>, 7),
     Src(2 * Arcsec, "PSF", Flux(24), Flux(10), 0, 1, <<0, 0, 0>>, <<0, 0, 0>>, 8)}

BandsSet == {<<"R">>, <<"G", "R">>}
MaglimSet == {<<13000>>, <<13000, 12000>>, <<18000>>}

NoMask == [status |-> "none", rows |-> <<>>]

InitBuild ==
    /\ pc = "build"
    /\ objs \in SeqsUpTo(SrcSet, MaxSrcs)
    /\ bands \in BandsSet
    /\ maglim \in MaglimSet
    /\ targs = <<>> /\ sourcemask = <<>>
    /\ inonly_arg = FALSE /\ nperradius = 0
    /\ res = NoMask /\ acc = NoMask
    /\ cov = {} /\ nshards = 0
    /\ NoMtlArgs

RunSourceMask ==
    /\ pc = "build"
    /\ \E infile, outfile \in BOOLEAN :
          res' = make_bright_source_mask(bands, maglim, objs, infile, outfile)
                     @@ [infilename |-> infile, outfilename |-> outfile]
    /\ sourcemask' = res'.rows
    /\ pc' = "built"
    /\ UNCHANGED <<builderArgs, mtlArgs, scxtargs, primtargs, targs, inonly_arg, nperradius, cov, acc, nshards>>

RunStarMask ==
    /\ pc = "build"
    /\ \E infile, outfile \in BOOLEAN :
          res' = make_bright_star_mask(bands, maglim, objs, infile, outfile)
                     @@ [infilename |-> infile, outfilename |-> outfile]
    /\ sourcemask' = res'.rows
    /\ pc' = "starbuilt"
    /\ UNCHANGED <<builderArgs, mtlArgs, scxtargs, primtargs, targs, inonly_arg, nperradius, cov, acc, nshards>>

RunCollect ==
    /\ pc = "build"
    /\ \E outfile \in BOOLEAN :
          res' = collect_bright_sources(bands, maglim, objs, outfile)
                     @@ [infilename |-> FALSE, outfilename |-> outfile]
    /\ pc' = "collected"
    /\ UNCHANGED <<builderArgs, mtlArgs, scxtargs, primtargs, targs, sourcemask, inonly_arg, nperradius, cov, acc, nshards>>

NextBuild == RunSourceMask \/ RunStarMask \/ RunCollect

SpecBuild == InitBuild /\ [][NextBuild]_vars

\* C5: every mask record that make_bright_source_mask or make_bright_star_mask
\* returns has NEAR_RADIUS equal to exactly twice its IN_RADIUS.
C5_NearTwiceIn ==
    pc \in {"built", "starbuilt"} =>
        \A i \in 1..Len(sourcemask) :
            sourcemask[i].NEAR_RADIUS = 2 * sourcemask[i].IN_RADIUS

\* a built catalog of a star and a galaxy, both with a radius and its double
C5_Witness ==
    /\ pc = "built" /\ Len(sourcemask) = 2
    /\ psflike(sourcemask[1].TYPE) /\ sourcemask[2].TYPE = "DEV"
    /\ \A i \in 1..2 : /\ sourcemask[i].IN_RADIUS > 0
                       /\ sourcemask[i].NEAR_RADIUS = 2 * sourcemask[i].IN_RADIUS

\* C6: every mask record that make_bright_source_mask returns has strictly
\* positive IN_RADIUS and NEAR_RADIUS, and E1 = E2 = 0 when its TYPE is PSF.
C6_MaskEntryInvariant ==
    pc = "built" =>
        \A i \in 1..Len(sourcemask) :
            /\ sourcemask[i].IN_RADIUS > 0
            /\ sourcemask[i].NEAR_RADIUS > 0
            /\ psflike(sourcemask[i].TYPE) =>
                   (sourcemask[i].E1 = 0 /\ sourcemask[i].E2 = 0)

\* a built catalog holding an extended source's record with radius 0 and a PSF
\* record with a non-zero ellipticity
C6_Witness ==
    /\ pc = "built"
    /\ \E i \in 1..Len(sourcemask) :
          ~psflike(sourcemask[i].TYPE) /\ sourcemask[i].IN_RADIUS = 0
    /\ \E i \in 1..Len(sourcemask) :
          psflike(sourcemask[i].TYPE) /\ sourcemask[i].E1 # 0

\* C14: when bands and maglim differ in length, make_bright_source_mask and
\* collect_bright_sources end in an error, having read no catalog, built no mask
\* record and written no file.
C14_LengthMismatchFailsFirst ==
    (pc \in {"built", "collected"} /\ Len(bands) # Len(maglim)) =>
        /\ res.status = "IOError"
        /\ res.rows = <<>>
        /\ ~res.read /\ ~res.written

\* the builder was run on the sweeps with two bands, one magnitude limit and an
\* output file, and has failed without reading or writing
C14_Witness ==
    /\ pc = "built" /\ ~res.infilename /\ res.outfilename
    /\ Len(bands) = 2 /\ Len(maglim) = 1
    /\ res.status = "IOError" /\ ~res.read /\ ~res.written

\* no source of the catalog is brighter than the limit in any band used, with the
\* fluxes of bands never observed set to zero
NonePasses ==
    \A k \in 1..Len(objs) : \A i \in 1..Len(bands) :
        objs[k].NOBS[bands[i]] = 0 \/ ~AboveFluxlim(objs[k].FLUX[bands[i]], maglim[i])

\* C15: when no source of the input catalog passes the magnitude cut, every entry
\* path of the builder (collect_bright_sources, make_bright_source_mask from the
\* sweeps or from an input file, make_bright_star_mask) ends in an error.
C15_EmptyResultError ==
    (pc \in {"built", "starbuilt", "collected"} /\ SameLength(bands, maglim) /\ NonePasses) =>
        res.status = "IOError"

\* make_bright_source_mask was run on an input file of which no source passes
\* the cut, and has returned an empty mask
C15_Witness ==
    /\ pc = "built" /\ res.infilename
    /\ SameLength(bands, maglim) /\ NonePasses
    /\ res.status = "ok" /\ res.rows = <<>>

\* the source that mask record rec was built from
SourceOf(rec) == objs[CHOOSE k \in 1..Len(objs) : objs[k].OBJID = rec.TARGETID[3]]

\* rec has the Tycho radius of the largest flux of o among the bands used and
\* observed
HasTychoRadius(rec, o) ==
    \E i \in 1..Len(bands) :
        /\ o.NOBS[bands[i]] # 0 /\ o.FLUX[bands[i]].pos
        /\ \A j \in 1..Len(bands) :
              (o.NOBS[bands[j]] # 0 /\ o.FLUX[bands[j]].pos)
                  => o.FLUX[bands[j]].dex <= o.FLUX[bands[i]].dex
        /\ rec.IN_RADIUS = tycho_in_radius(180 - 5 * o.FLUX[bands[i]].dex)

\* C18: in the mask make_bright_source_mask returns, the IN_RADIUS of a PSF
\* source is the Tycho law at the magnitude of its largest flux among the bands
\* used (bands with NOBS = 0 zeroed), whatever its measured shape; the IN_RADIUS
\* of any other source is max(SHAPEEXP_R, SHAPEDEV_R), with E1/E2 of the de
\* Vaucouleurs profile iff SHAPEDEV_R > SHAPEEXP_R and of the exponential
\* profile otherwise.
C18_RadiusLaw ==
    (pc = "built" /\ res.status = "ok") =>
        \A i \in 1..Len(sourcemask) :
            IF psflike(SourceOf(sourcemask[i]).TYPE)
            THEN HasTychoRadius(sourcemask[i], SourceOf(sourcemask[i]))
            ELSE /\ sourcemask[i].IN_RADIUS
                        = Max2(SourceOf(sourcemask[i]).SHAPEEXP_R,
                               SourceOf(sourcemask[i]).SHAPEDEV_R)
                 /\ <<sourcemask[i].E1, sourcemask[i].E2>>
                        = IF SourceOf(sourcemask[i]).SHAPEDEV_R
                                 > SourceOf(sourcemask[i]).SHAPEEXP_R
                          THEN <<SourceOf(sourcemask[i]).SHAPEDEV_E1,
                                 SourceOf(sourcemask[i]).SHAPEDEV_E2>>
                          ELSE <<SourceOf(sourcemask[i]).SHAPEEXP_E1,
                                 SourceOf(sourcemask[i]).SHAPEEXP_E2>>

\* a mask built from a star with a measured shape and two unequal fluxes,
\* and a galaxy led by its de Vaucouleurs profile
C18_Witness ==
    /\ pc = "built" /\ res.status = "ok" /\ Len(sourcemask) = 2
    /\ psflike(sourcemask[1].TYPE) /\ SourceOf(sourcemask[1]).SHAPEEXP_R > 0
    /\ SourceOf(sourcemask[1]).FLUX.G.dex > SourceOf(sourcemask[1]).FLUX.R.dex
    /\ Len(bands) = 2
    /\ sourcemask[1].IN_RADIUS # SourceOf(sourcemask[1]).SHAPEEXP_R
    /\ sourcemask[2].TYPE = "DEV"
    /\ sourcemask[2].IN_RADIUS = SourceOf(sourcemask[2]).SHAPEDEV_R
    /\ sourcemask[2].E2 = SourceOf(sourcemask[2]).SHAPEDEV_E2
    /\ sourcemask[2].E2 # SourceOf(sourcemask[2]).SHAPEEXP_E2

(***************************************************************************)
(* Safe locations (geomask.py circle_boundaries, brightmask.py             *)
(* generate_safe_locations)                                                *)
(***************************************************************************)
\* the 0.1% kick, 1.001, as a fraction
Kick == <<1001, 1000>>
Kicked(r) == RoundDiv(r * Kick[1], Kick[2])

RECURSIVE Flatten(_)
Flatten(rows) == IF rows = <<>> THEN <<>> ELSE Head(rows) \o Flatten(Tail(rows))

\* circle_boundaries.  offdec, offrapos, sign and offra are lists of one array per
\* mask; "DECcens + offdec" and "RAcens + offra" add such a list to the array of
\* the centers, which numpy does by its broadcasting rules:
\*   - one mask: row 1 is added to center 1;
\*   - arrays of differing lengths: the list becomes an array of objects and row i
\*     is added to center i where numpy still builds such arrays (ragged), and is
\*     a ValueError where it does not;
\*   - M > 1 arrays of the same length n: the list is an (M, n) array, added to
\*     the (M,) centers along its last axis, so that column j goes to center j
\*     when n = M or n = 1, and a ValueError otherwise.
circle_boundaries(RAcens, DECcens, r, nloc, ragged) ==
    LET M       == Len(RAcens)
        radius  == [i \in 1..M |-> Kicked(r[i])]
        uniform == \A i \in 1..M : nloc[i] = nloc[1]
        offdec(i, j) == RoundDiv(radius[i] * SinT(j - 1, nloc[i]), TrigScale)
        sign(i, j)   == Sign(CosT(j - 1, nloc[i]))
        \* row i, column j, added to center c
        Loc(i, j, c) ==
            LET dec == DECcens[c] + offdec(i, j)
            IN  Pos(RAcens[c] + sign(i, j) * sphere_circle_ra_off(radius[i], DECcens[i], dec),
                    dec)
    IN  IF M = 1 \/ ~uniform
        THEN IF M > 1 /\ ~ragged THEN [status |-> "ValueError", locs |-> <<>>]
             ELSE [status |-> "ok",
                   locs |-> Flatten([i \in 1..M |-> [j \in 1..nloc[i] |-> Loc(i, j, i)]])]
        ELSE IF nloc[1] = M
        THEN [status |-> "ok",
              locs |-> Flatten([i \in 1..M |-> [j \in 1..M |-> Loc(i, j, j)]])]
        ELSE IF nloc[1] = 1
        THEN [status |-> "ok",
              locs |-> Flatten([i \in 1..M |-> [j \in 1..M |-> Loc(i, 1, j)]])]
        ELSE [status |-> "ValueError", locs |-> <<>>]

\* Nsafe = np.ceil(radius * Nperradius) for radius = IN_RADIUS * 1.001 arcsec
Nsafe(m, Nperradius) ==
    CeilDiv(m.IN_RADIUS * Kick[1] * Nperradius, Kick[2] * Arcsec)

\* rex_or_psf for one mask
IsCircle(m) == rexlike(m.TYPE) \/ psflike(m.TYPE)

\* np.where(rex_or_psf) and np.where(~rex_or_psf): mask indices in catalog order
WhereCircle(masks) ==
    LET Kept(i) == IsCircle(masks[i])
    IN  SelectSeq([i \in 1..Len(masks) |-> i], Kept)
WhereEllipse(masks) ==
    LET Kept(i) == ~IsCircle(masks[i])
    IN  SelectSeq([i \in 1..Len(masks) |-> i], Kept)

generate_safe_locations(masks, Nperradius, ragged) ==
    LET w_circle  == WhereCircle(masks)
        w_ellipse == WhereEllipse(masks)
        nc        == Len(w_circle)
        radius(m) == Kicked(m.IN_RADIUS)
        circ == IF nc > 0
                THEN circle_boundaries([k \in 1..nc |-> masks[w_circle[k]].RA],
                                       [k \in 1..nc |-> masks[w_circle[k]].DEC],
                                       [k \in 1..nc |-> radius(masks[w_circle[k]])],
                                       [k \in 1..nc |-> Nsafe(masks[w_circle[k]], Nperradius)],
                                       ragged)
                ELSE [status |-> "ok", locs |-> <<>>]
        Ell(m) == ellipse_boundary(m.RA, m.DEC, radius(m), m.E1, m.E2, Nsafe(m, Nperradius))
    IN  IF circ.status # "ok" THEN circ
        ELSE [status |-> "ok",
              locs |-> circ.locs
                          \o Flatten([k \in 1..Len(w_ellipse) |-> Ell(masks[w_ellipse[k]])])]

MaxNper == 2
MaxNloc == 4

\* mask catalogs of the safe-location runs: radii small enough for a handful of
\* locations each, next to the 10" mask
SafeMaskSet ==
    {Mask(0, 0, 10 * Arcsec, 0, 0, "PSF"),
     Mask(Arcsec, 0, 15 * (Arcsec \div 10), 0, 0, "PSF"),
     Mask(0, 0, Arcsec, 0, 0, "REX"),
     Mask(2 * Arcsec, 0, 3 * Arcsec, 0, 0, "PSF"),
     Mask(0, 0, Arcsec \div 2, 0, 0, "REX"),
     Mask(0, 0, Arcsec, -280, -960, "EXP"),
     Mask(-9 * (Arcsec \div 10), 0, Arcsec, -280, 960, "DEV"),
     Mask(0, 0, 0, 0, 0, "EXP")}

NoLocs == [status |-> "none", locs |-> <<>>]

InitSafe ==
    /\ pc = "safe"
    /\ sourcemask \in SeqsUpTo(SafeMaskSet, MaxMasks)
    /\ nperradius \in 1..MaxNper
    /\ objs = <<>> /\ bands = <<>> /\ maglim = <<>> /\ NoMtlArgs
    /\ targs = <<>> /\ inonly_arg = FALSE
    /\ res = NoLocs /\ acc = NoLocs
    /\ cov = {} /\ nshards = 0

\* generate_safe_locations on the mask catalog; ragged is whether the numpy in
\* use still builds an array from rows of differing lengths
RunSafeLocations ==
    /\ pc = "safe"
    /\ \E ragged \in BOOLEAN :
          res' = generate_safe_locations(sourcemask, nperradius, ragged)
    /\ pc' = "located"
    /\ UNCHANGED <<builderArgs, mtlArgs, scxtargs, primtargs, targs, sourcemask, inonly_arg, nperradius, cov, acc, nshards>>

\* ellipse_boundary called on the shape of one mask, for nloc locations
RunEllipseBoundary ==
    /\ pc = "safe"
    /\ \E w \in 1..Len(sourcemask), nloc \in 1..MaxNloc :
          res' = [status |-> "ok", w |-> w, nloc |-> nloc,
                  locs |-> ellipse_boundary(sourcemask[w].RA, sourcemask[w].DEC,
                                            sourcemask[w].IN_RADIUS,
                                            sourcemask[w].E1, sourcemask[w].E2, nloc)]
    /\ pc' = "boundary"
    /\ UNCHANGED <<builderArgs, mtlArgs, scxtargs, primtargs, targs, sourcemask, inonly_arg, nperradius, cov, acc, nshards>>

NextSafe == RunSafeLocations \/ RunEllipseBoundary

SpecSafe == InitSafe /\ [][NextSafe]_vars

\* the order in which generate_safe_locations emits the masks' locations
EmitOrder(masks) == WhereCircle(masks) \o WhereEllipse(masks)

\* the number of locations due before those of the k-th emitted mask
RECURSIVE DueBefore(_, _, _)
DueBefore(masks, Nperradius, k) ==
    IF k <= 1 THEN 0
    ELSE DueBefore(masks, Nperradius, k - 1)
             + Nsafe(masks[EmitOrder(masks)[k - 1]], Nperradius)

\* C9: generate_safe_locations emits for each mask exactly
\* ceil(IN_RADIUS * 1.001 * Nperradius) positions, and every position emitted for
\* a circle-tested mask lies at a separation of at least IN_RADIUS * 1.001 from
\* that mask's center.
C9_SafeLocations ==
    pc = "located" =>
        /\ res.status = "ok"
        /\ Len(res.locs) = DueBefore(sourcemask, nperradius, Len(sourcemask) + 1)
        /\ \A k \in 1..Len(sourcemask) :
              LET m == sourcemask[EmitOrder(sourcemask)[k]]
                  first == DueBefore(sourcemask, nperradius, k)
              IN  IsCircle(m) =>
                      \A j \in 1..Nsafe(m, nperradius) :
                          /\ first + j <= Len(res.locs)
                          /\ WLe(WSq(Kicked(m.IN_RADIUS)), Sep2(res.locs[first + j], m))

\* the single 10" mask at density 1: 11 locations, all at 10.01" or beyond
C9_ExampleWitness ==
    /\ pc = "located" /\ res.status = "ok"
    /\ sourcemask = <<Mask(0, 0, 10 * Arcsec, 0, 0, "PSF")>> /\ nperradius = 1
    /\ Len(res.locs) = 11
    /\ \A j \in 1..11 :
          WLe(WSq((1001 * Arcsec) \div 100), Sep2(res.locs[j], sourcemask[1]))

\* two circle-tested masks with as many locations each as there are masks: the
\* run returns locations placed around the wrong centers
C9_Witness ==
    /\ pc = "located" /\ res.status = "ok"
    /\ Len(sourcemask) = 2 /\ IsCircle(sourcemask[1]) /\ IsCircle(sourcemask[2])
    /\ \E j \in 1..Len(res.locs) :
          j <= Nsafe(sourcemask[1], nperradius)
          /\ WLt(Sep2(res.locs[j], sourcemask[1]), WSq(sourcemask[1].IN_RADIUS))

\* the offsets of v from u, turned by a quarter turn, within two units
QuarterTurn(c, u, v) ==
    /\ Abs((v.RA - c.RA) - (u.DEC - c.DEC)) <= 2
    /\ Abs((v.DEC - c.DEC) + (u.RA - c.RA)) <= 2

\* C10: ellipse_boundary with nloc = 4 and e1 = e2 = 0 returns 4 pairwise
\* distinct points, each a quarter turn from the one before, on the circle of
\* radius r around the center.
C10_FourPointsOnCircle ==
    (pc = "boundary" /\ res.nloc = 4
        /\ sourcemask[res.w].E1 = 0 /\ sourcemask[res.w].E2 = 0
        /\ sourcemask[res.w].IN_RADIUS > 2) =>
        LET c == sourcemask[res.w]
            r == c.IN_RADIUS
        IN  /\ Len(res.locs) = 4
            /\ \A i, j \in 1..4 : i # j => res.locs[i] # res.locs[j]
            /\ \A i \in 1..3 : QuarterTurn(c, res.locs[i], res.locs[i + 1])
            /\ \A i \in 1..4 : /\ WLe(WSq(r - 2), Sep2(res.locs[i], c))
                               /\ WLe(Sep2(res.locs[i], c), WSq(r + 2))

\* a boundary of 4 locations of a round shape whose first and last coincide
C10_Witness ==
    /\ pc = "boundary" /\ res.nloc = 4 /\ Len(res.locs) = 4
    /\ sourcemask[res.w].E1 = 0 /\ sourcemask[res.w].E2 = 0
    /\ sourcemask[res.w].IN_RADIUS > 2
    /\ res.locs[1] = res.locs[4]
    /\ res.locs[1] # res.locs[2] /\ res.locs[2] # res.locs[3] /\ res.locs[1] # res.locs[3]

(***************************************************************************)
(* Target bits (brightmask.py: is_bright_source, set_target_bits,          *)
(* append_safe_targets, mask_targets).  DESI_TARGET is the set of the      *)
(* names of its bits, so that OR-ing a bit in is a union.                  *)
(***************************************************************************)
\* is_bright_source: whether each target's encoded identity is some mask's TARGETID
is_bright_source_by_position(tg, masks) ==
    [t \in 1..Len(tg) |->
        \E m \in 1..Len(masks) : tg[t].RA = masks[m].RA /\ tg[t].DEC = masks[m].DEC]
is_bright_source(tg, masks) ==
    LET targetid == [t \in 1..Len(tg) |->
                        encode_targetid(tg[t].BRICK_OBJID, tg[t].BRICKID, tg[t].RELEASE, 0)]
        matches  == {masks[m].TARGETID : m \in 1..Len(masks)}
                        \cap {targetid[t] : t \in 1..Len(tg)}
    IN  [t \in 1..Len(tg) |-> targetid[t] \in matches]

\* flag * desi_mask.NAME
BitButNear(flag, name) == IF flag /\ name # "NEAR_BRIGHT_OBJECT" THEN {name} ELSE {}
Bit(flag, name) == IF flag THEN {name} ELSE {}

\* desi_target |= bits
Overwrite(desi_target, bits) == bits
OrIn(desi_target, bits) == desi_target \cup bits

\* set_target_bits: the DESI_TARGET column with the three bits OR-ed in
set_target_bits(tg, masks) ==
    LET bright_object == is_bright_source(tg, masks)
        SetBits(inmask) ==
            IF inmask.status # "ok" THEN [status |-> inmask.status, desi_target |-> <<>>]
            ELSE [status |-> "ok",
                  desi_target |->
                      [t \in 1..Len(tg) |->
                          OrIn(OrIn(OrIn(tg[t].DESI_TARGET,
                                         Bit(bright_object[t], "BRIGHT_OBJECT")),
                                    Bit(inmask.in_mask[t], "IN_BRIGHT_OBJECT")),
                               Bit(inmask.near_mask[t], "NEAR_BRIGHT_OBJECT"))]]
    IN  SetBits(is_in_bright_mask(tg, masks, FALSE))

\* desiutil.brick: the brick of a position; the field straddles the edge between
\* bricks 1 and 2 at RA = 0
Bricks == {1, 2}
brickid(ra, dec) == IF ra < 0 THEN 1 ELSE 2

\* the nobjs column of the survey bricks file (drbricks)
hnobjs(b) == 100 * b

RECURSIVE SortedBricks(_)
SortedBricks(B) ==
    IF B = {} THEN <<>>
    ELSE LET b == CHOOSE x \in B : \A y \in B : x <= y
         IN  <<b>> \o SortedBricks(B \ {b})

\* targs['RELEASE']//1000: the data release of a RELEASE value
OneRelease(release) == 0
DataRelease(release) == release \div 1000

\* objsadd, np.hstack of np.arange(i) per brick: the count added to the
\* BRICK_OBJID of the k-th safe location of its brick
SameObjid(k) == 0
objsadd(k) == k - 1

\* append_safe_targets: the targets followed by one BAD_SKY row per safe location
append_safe_targets(tg, masks, ragged) ==
    LET order  == SortedBricks(Bricks)
        \* hnobjs[BRICKID] + 1 + objsadd for the k-th row of its brick
        Row(r, k) == [RA |-> r.RA, DEC |-> r.DEC, DESI_TARGET |-> {"BAD_SKY"},
                      BRICKID |-> r.BRICKID,
                      BRICK_OBJID |-> hnobjs(r.BRICKID) + 1 + objsadd(k),
                      RELEASE |-> 0,
                      TARGETID |-> encode_targetid(hnobjs(r.BRICKID) + 1 + objsadd(k),
                                                   r.BRICKID, 0, 1)]
        mixed  == \E i, j \in 1..Len(tg) :
                      DataRelease(tg[i].RELEASE) # DataRelease(tg[j].RELEASE)
        \* safes[safes["BRICKID"].argsort()], equal bricks kept in order
        InBrick(safes, b) == LET Is(r) == r.BRICKID = b IN SelectSeq(safes, Is)
        Numbered(rows) == [k \in 1..Len(rows) |-> Row(rows[k], k)]
        Sorted(safes) ==
            Flatten([i \in 1..Len(order) |-> Numbered(InBrick(safes, order[i]))])
        Extend(status, safes) ==
            IF status # "ok" THEN [status |-> status, targs |-> <<>>]
            ELSE IF mixed THEN [status |-> "IOError", targs |-> <<>>]
            \* np.hstack of the empty list of per-brick counters
            ELSE IF safes = <<>> THEN [status |-> "ValueError", targs |-> <<>>]
            ELSE [status |-> "ok", targs |-> tg \o Sorted(safes)]
        Safes(locs) ==
            Extend(locs.status,
                   [k \in 1..Len(locs.locs) |->
                       [RA |-> locs.locs[k].RA, DEC |-> locs.locs[k].DEC,
                        BRICKID |-> brickid(locs.locs[k].RA, locs.locs[k].DEC)]])
    IN  Safes(generate_safe_locations(masks, 1, ragged))

\* the rows of w: (DESI_TARGET & BAD_SKY) == 0 | (DESI_TARGET & IN_BRIGHT_OBJECT) == 0
KeepOutOfMask(row) == "IN_BRIGHT_OBJECT" \notin row.DESI_TARGET
Keep(row) == "BAD_SKY" \notin row.DESI_TARGET \/ "IN_BRIGHT_OBJECT" \notin row.DESI_TARGET

\* mask_targets with the mask catalog read from inmaskfile
mask_targets(tg, masks, ragged) ==
    LET \* if len(w[0]) > 0: done = done[w]
        Filter(done, w) == IF Len(w) > 0 THEN w ELSE done
        Masked(appended, dt) ==
            IF appended.status # "ok" THEN [status |-> appended.status, targs |-> <<>>]
            ELSE IF dt.status # "ok" THEN [status |-> dt.status, targs |-> <<>>]
            ELSE [status |-> "ok",
                  targs |-> LET Where(done) == Filter(done, SelectSeq(done, Keep))
                            IN  Where([t \in 1..Len(appended.targs) |->
                                          [appended.targs[t]
                                              EXCEPT !.DESI_TARGET = dt.desi_target[t]]])]
        Appended(appended) == Masked(appended, set_target_bits(appended.targs, masks))
    IN  Appended(append_safe_targets(tg, masks, ragged))

\* a target row
Targ(ra, dec, bits, objid, release) ==
    [RA |-> ra, DEC |-> dec, DESI_TARGET |-> bits,
     BRICKID |-> brickid(ra, dec), BRICK_OBJID |-> objid, RELEASE |-> release,
     TARGETID |-> encode_targetid(objid, brickid(ra, dec), release, 0)]

TargSet ==
    {Targ(0, 0, {"ELG"}, 1, 3000),
     Targ(4 * Arcsec, 0, {}, 2, 3000),
     Targ(12 * Arcsec, 0, {"ELG"}, 3, 3000),
     Targ(0, 0, {"BAD_SKY"}, 101, 3000),
     Targ(12 * Arcsec, 0, {"BAD_SKY"}, 102, 3000),
     Targ(0, 2 * (Arcsec \div 10), {"ELG"}, 1, 4000),
     \* a target that comes with a bright-object bit already set
     Targ(12 * Arcsec, 0, {"ELG", "NEAR_BRIGHT_OBJECT"}, 5, 3000)}

\* a mask record with the TARGETID of the source it was built from
IdMask(objid, m) == m @@ [TARGETID |-> encode_targetid(objid, brickid(m.RA, m.DEC), 3000, 0)]

IdMaskSet ==
    {IdMask(3, Mask(0, 0, 15 * (Arcsec \div 10), 0, 0, "PSF")),
     IdMask(1, Mask(0, 0, 5 * Arcsec, 0, 0, "PSF")),
     IdMask(50, Mask(0, 0, Arcsec, -280, -960, "EXP")),
     IdMask(51, Mask(-9 * (Arcsec \div 10), 0, Arcsec, -280, 960, "DEV")),
     IdMask(52, Mask(0, 0, 0, 0, 0, "EXP"))}

NoTargs == [status |-> "none", targs |-> <<>>]

InitTargets(tag) ==
    /\ pc = tag
    /\ targs \in SeqsUpTo(TargSet, MaxTargs)
    /\ sourcemask \in SeqsUpTo(IdMaskSet, MaxMasks)
    /\ objs = <<>> /\ bands = <<>> /\ maglim = <<>> /\ NoMtlArgs
    /\ inonly_arg = FALSE /\ nperradius = 1
    /\ res = NoTargs /\ acc = NoTargs
    /\ cov = {} /\ nshards = 0

RunSetTargetBits ==
    /\ pc = "bits"
    /\ res' = set_target_bits(targs, sourcemask)
    /\ pc' = "bitset"
    /\ UNCHANGED <<builderArgs, mtlArgs, scxtargs, primtargs, targs, sourcemask, inonly_arg, nperradius, cov, acc, nshards>>

RunMaskTargets ==
    /\ pc = "targets"
    /\ \E ragged \in BOOLEAN : res' = mask_targets(targs, sourcemask, ragged)
    /\ pc' = "masked"
    /\ UNCHANGED <<builderArgs, mtlArgs, scxtargs, primtargs, targs, sourcemask, inonly_arg, nperradius, cov, acc, nshards>>

RunAppendSafeTargets ==
    /\ pc = "targets"
    /\ \E ragged \in BOOLEAN : res' = append_safe_targets(targs, sourcemask, ragged)
    /\ pc' = "appended"
    /\ UNCHANGED <<builderArgs, mtlArgs, scxtargs, primtargs, targs, sourcemask, inonly_arg, nperradius, cov, acc, nshards>>

NextBits == RunSetTargetBits

SpecBits == InitTargets("bits") /\ [][NextBits]_vars

NextTargets == RunMaskTargets

SpecTargets == InitTargets("targets") /\ [][NextTargets]_vars

\* C3: no row that mask_targets returns has both the BAD_SKY bit and the
\* IN_BRIGHT_OBJECT bit set in DESI_TARGET.
C3_NoBadSkyInMask ==
    (pc = "masked" /\ res.status = "ok") =>
        \A t \in 1..Len(res.targs) :
            ~({"BAD_SKY", "IN_BRIGHT_OBJECT"} \subseteq res.targs[t].DESI_TARGET)

\* mask_targets has returned a table of which every row is a BAD_SKY row inside
\* a mask
C3_Witness ==
    /\ pc = "masked" /\ res.status = "ok"
    /\ Len(res.targs) > Len(targs)
    /\ \A t \in 1..Len(res.targs) :
          {"BAD_SKY", "IN_BRIGHT_OBJECT"} \subseteq res.targs[t].DESI_TARGET

\* C4: set_target_bits leaves a target with the BRIGHT_OBJECT bit iff the
\* identity encoded from its (BRICK_OBJID, BRICKID, RELEASE) is the TARGETID of
\* some mask record (or the bit was set on input), wherever target and mask lie.
C4_BrightObjectByIdentity ==
    (pc = "bitset" /\ res.status = "ok") =>
        \A t \in 1..Len(targs) :
            ("BRIGHT_OBJECT" \in res.desi_target[t]) <=>
                \/ "BRIGHT_OBJECT" \in targs[t].DESI_TARGET
                \/ \E m \in 1..Len(sourcemask) :
                      sourcemask[m].TARGETID =
                          <<targs[t].RELEASE, targs[t].BRICKID, targs[t].BRICK_OBJID, 0>>

\* a target far outside the mask that carries its identity is flagged
\* BRIGHT_OBJECT and nothing else, and a target at the center of that mask with
\* another identity is not
C4_Witness ==
    /\ pc = "bitset" /\ res.status = "ok"
    /\ Len(targs) = 2 /\ Len(sourcemask) = 1
    /\ "BRIGHT_OBJECT" \in res.desi_target[1]
    /\ "IN_BRIGHT_OBJECT" \notin res.desi_target[1]
    /\ "NEAR_BRIGHT_OBJECT" \notin res.desi_target[1]
    /\ targs[2].RA = sourcemask[1].RA /\ targs[2].DEC = sourcemask[1].DEC
    /\ "IN_BRIGHT_OBJECT" \in res.desi_target[2]
    /\ "BRIGHT_OBJECT" \notin res.desi_target[2]

(***************************************************************************)
(* Runs of the ellipse primitives (geomask.py ellipse_matrix,              *)
(* is_in_ellipse) on one ellipse and one point                             *)
(***************************************************************************)
\* ellipticities <<e1, e2>>: round, moderate along and across both axes, tilted,
\* just below 1 (axis ratio above maxab), exactly 1 and above 1
EllipticitySet ==
    {<<0, 0>>, <<1000, 0>>, <<-1000, 0>>, <<-280, 960>>, <<280, -960>>,
     <<2996, 0>>, <<3000, 0>>, <<-840, 2880>>, <<3600, 0>>}

EllipseRadii == {0, Arcsec, 5 * Arcsec}

\* T applied to the vector <<vx, vy>> / den of half-light-radius coordinates
Scaled(k, n, d) == (k * (n \div Gcd(Abs(n), d))) \div (d \div Gcd(Abs(n), d))
Transformed(T, vx, vy, den) ==
    <<Scaled(T.k, T.m[1][1] * vx + T.m[1][2] * vy, T.d * den),
      Scaled(T.k, T.m[2][1] * vx + T.m[2][2] * vy, T.d * den)>>

\* offsets of the tested point from the center: the center itself, the end of the
\* major axis (T applied to <<0, 1>>), the end of the minor axis (T applied to
\* <<1, 0>>), and the points 0.1% inside and outside of the major-axis end
OffsetsOf(T) ==
    {<<0, 0>>, Transformed(T, 0, 1, 1), Transformed(T, 1, 0, 1),
     Transformed(T, 0, 999, 1000), Transformed(T, 0, 1001, 1000)}

NoEllipse == [status |-> "none"]

InitEllipse ==
    /\ pc = "ellipse"
    /\ \E r \in EllipseRadii, e \in EllipticitySet :
          /\ sourcemask = <<Mask(0, 0, r, e[1], e[2], "EXP")>>
          /\ \E o \in OffsetsOf(ellipse_matrix(r, e[1], e[2])) : targs = <<Pos(o[1], o[2])>>
    /\ objs = <<>> /\ bands = <<>> /\ maglim = <<>> /\ NoMtlArgs
    /\ inonly_arg = FALSE /\ nperradius = 0
    /\ res = NoEllipse /\ acc = NoEllipse
    /\ cov = {} /\ nshards = 0

\* is_in_ellipse(ras, decs, RAcen, DECcen, r, e1, e2) for the one point
RunIsInEllipse ==
    /\ pc = "ellipse"
    /\ \E r \in {is_in_ellipse(targs[1].RA, targs[1].DEC, sourcemask[1].RA, sourcemask[1].DEC,
                               sourcemask[1].IN_RADIUS, sourcemask[1].E1, sourcemask[1].E2)} :
          res' = [status |-> IF r.err THEN "LinAlgError" ELSE "ok", val |-> r.val]
    /\ pc' = "tested"
    /\ UNCHANGED <<builderArgs, mtlArgs, scxtargs, primtargs, targs, sourcemask, inonly_arg, nperradius, cov, acc, nshards>>

\* ellipse_matrix(r, e1, e2)
RunEllipseMatrix ==
    /\ pc = "ellipse"
    /\ res' = [status |-> "ok",
               T |-> ellipse_matrix(sourcemask[1].IN_RADIUS, sourcemask[1].E1, sourcemask[1].E2)]
    /\ pc' = "matrix"
    /\ UNCHANGED <<builderArgs, mtlArgs, scxtargs, primtargs, targs, sourcemask, inonly_arg, nperradius, cov, acc, nshards>>

NextEllipse == RunIsInEllipse \/ RunEllipseMatrix

SpecEllipse == InitEllipse /\ [][NextEllipse]_vars

\* the end of the major axis of the ellipse of the run: T applied to <<0, 1>>
MajorEnd ==
    Transformed(ellipse_matrix(sourcemask[1].IN_RADIUS, sourcemask[1].E1, sourcemask[1].E2),
                0, 1, 1)

\* C11: for every ellipse with r > 0, is_in_ellipse returns True for the center
\* of the ellipse and False for the point at the end of its major axis, whose
\* transformed offset has norm exactly 1.
C11_StrictEllipse ==
    (pc = "tested" /\ sourcemask[1].IN_RADIUS > 0) =>
        /\ res.status = "ok"
        /\ (targs[1] = Pos(sourcemask[1].RA, sourcemask[1].DEC) => res.val)
        /\ (targs[1] = Pos(sourcemask[1].RA + MajorEnd[1], sourcemask[1].DEC + MajorEnd[2])
               => ~res.val)

\* the point at the major-axis end of a tilted 5" ellipse has been tested and
\* found outside
C11_Witness ==
    /\ pc = "tested"
    /\ sourcemask = <<Mask(0, 0, 5 * Arcsec, -280, 960, "EXP")>>
    /\ targs = <<Pos(4 * Arcsec, 3 * Arcsec)>>
    /\ MajorEnd = <<4 * Arcsec, 3 * Arcsec>>
    /\ res = [status |-> "ok", val |-> FALSE]

\* the matrix m stretches its second column by num/den relative to its first
RatioIs(m, num, den) ==
    /\ m[2][2] * den = m[1][1] * num
    /\ m[1][2] * den = -m[2][1] * num

\* e = hypot(e1, e2) of the ellipse of the run, in units of 1/EllDen
RunE == Hypot(sourcemask[1].E1, sourcemask[1].E2)

\* C12 as stated: for e < 1 the axis ratio built into the matrix equals
\* (1+e)/(1-e) and is at most 1000; for e >= 1 it is exactly 1000.
C12_AxisRatioAsStated ==
    pc = "matrix" =>
        IF RunE < EllDen
        THEN /\ RatioIs(res.T.m, EllDen + RunE, EllDen - RunE)
             /\ EllDen + RunE <= maxab * (EllDen - RunE)
        ELSE RatioIs(res.T.m, maxab, 1)

\* C12 amended: the axis ratio built into the matrix equals (1+e)/(1-e) where
\* e < 1 and (1+e)/(1-e) <= 1000, and exactly 1000 everywhere else.
C12_AxisRatioCapped ==
    pc = "matrix" =>
        IF RunE < EllDen /\ EllDen + RunE <= maxab * (EllDen - RunE)
        THEN RatioIs(res.T.m, EllDen + RunE, EllDen - RunE)
        ELSE RatioIs(res.T.m, maxab, 1)

\* the matrix of an ellipse with e < 1 and (1+e)/(1-e) > 1000 has been built with
\* the axis ratio 1000
C12_Witness ==
    /\ pc = "matrix"
    /\ RunE < EllDen /\ EllDen + RunE > maxab * (EllDen - RunE)
    /\ res.T.m[1][1] # 0
    /\ res.T.m[2][2] = maxab * res.T.m[1][1]

\* C13: is_in_bright_mask returns its boolean arrays (and raises no error) for
\* every catalog, among them those with an EXTENDED mask of radius 0 joined to
\* a target.
C13_SingularHandled ==
    pc = "crossed" => res.status = "ok"

\* an EXTENDED mask of radius 0 has been joined to a target 4" away (within the
\* NEAR radius of the other mask) and the crossmatch has raised
C13_Witness ==
    /\ pc = "crossed"
    /\ sourcemask = <<Mask(0, 0, 0, 0, 0, "EXP"), Mask(0, 0, 5 * Arcsec, 0, 0, "PSF")>>
    /\ targs = <<Pos(4 * Arcsec, 0)>>
    /\ res.status = "LinAlgError"

(***************************************************************************)
(* Failure and frame of the target runs                                    *)
(***************************************************************************)
\* the catalogs of the runs of append_safe_targets: targets of two RELEASE values
\* of one data release and of another data release, and masks with safe locations
AppendTargSet ==
    {Targ(0, 0, {"ELG"}, 1, 3000),
     Targ(4 * Arcsec, 0, {"BAD_SKY"}, 4, 3001),
     Targ(0, 2 * (Arcsec \div 10), {}, 1, 4000),
     \* a BAD_SKY row that lies in a mask
     Targ(0, 0, {"BAD_SKY"}, 101, 3000)}

AppendMaskSet ==
    {IdMask(3, Mask(0, 0, 15 * (Arcsec \div 10), 0, 0, "PSF")),
     IdMask(4, Mask(-3 * Arcsec, 0, 5 * (Arcsec \div 10), 0, 0, "REX")),
     IdMask(51, Mask(-9 * (Arcsec \div 10), 0, Arcsec, -280, 960, "DEV"))}

InitAppend ==
    /\ pc = "targets"
    /\ targs \in SeqsUpTo(AppendTargSet, MaxTargs)
    /\ sourcemask \in SeqsUpTo(AppendMaskSet, MaxMasks)
    /\ objs = <<>> /\ bands = <<>> /\ maglim = <<>> /\ NoMtlArgs
    /\ inonly_arg = FALSE /\ nperradius = 1
    /\ res = NoTargs /\ acc = NoTargs
    /\ cov = {} /\ nshards = 0

NextAppend == RunAppendSafeTargets \/ RunMaskTargets

SpecAppend == InitAppend /\ [][NextAppend]_vars

\* C16 as stated: append_safe_targets and mask_targets end in an error, with no
\* target table, whenever two input targets differ in RELEASE.
C16_MixedReleaseFails ==
    (pc \in {"appended", "masked"}
        /\ \E i, j \in 1..Len(targs) : targs[i].RELEASE # targs[j].RELEASE) =>
        res.status # "ok" /\ res.targs = <<>>

\* C16 amended: append_safe_targets and mask_targets end in an error, with no
\* target table, whenever two input targets differ in data release, RELEASE // 1000.
C16_MixedDataReleaseFails ==
    (pc \in {"appended", "masked"}
        /\ \E i, j \in 1..Len(targs) :
              targs[i].RELEASE \div 1000 # targs[j].RELEASE \div 1000) =>
        res.status # "ok" /\ res.targs = <<>>

\* append_safe_targets was run on targets of RELEASE 3000 and 4000 with a mask
\* that has safe locations, and has raised IOError
C16_Witness ==
    /\ pc = "appended"
    /\ Len(targs) = 2 /\ targs[1].RELEASE = 3000 /\ targs[2].RELEASE = 4000
    /\ Len(sourcemask) = 1 /\ psflike(sourcemask[1].TYPE)
    /\ res.status = "IOError" /\ res.targs = <<>>

\* the three bits that the flags of target t call for, given the flags bright of
\* is_bright_source and inmask of is_in_bright_mask
FlagBits(bright, inmask, t) ==
    Bit(bright[t], "BRIGHT_OBJECT")
        \cup Bit(inmask.in_mask[t], "IN_BRIGHT_OBJECT")
        \cup Bit(inmask.near_mask[t], "NEAR_BRIGHT_OBJECT")

\* C17: what set_target_bits returns for a target is its input DESI_TARGET with
\* the bits of its three flags OR-ed in: every input bit stays set, no bit other
\* than BRIGHT_OBJECT, IN_BRIGHT_OBJECT and NEAR_BRIGHT_OBJECT changes, and the
\* call leaves the targets' own DESI_TARGET column as it was.
C17_OnlyOrsBitsIn ==
    /\ []((pc = "bitset" /\ res.status = "ok") =>
             \A bright \in {is_bright_source(targs, sourcemask)},
                inmask \in {is_in_bright_mask(targs, sourcemask, FALSE)} :
                 \A t \in 1..Len(targs) :
                     /\ res.desi_target[t]
                            = targs[t].DESI_TARGET \cup FlagBits(bright, inmask, t)
                     /\ targs[t].DESI_TARGET \subseteq res.desi_target[t]
                     /\ res.desi_target[t] \ targs[t].DESI_TARGET
                            \subseteq {"BRIGHT_OBJECT", "IN_BRIGHT_OBJECT",
                                       "NEAR_BRIGHT_OBJECT"})
    /\ [][RunSetTargetBits => targs' = targs]_vars

\* set_target_bits has returned for an ELG target inside a mask, which gained
\* bits, and for a target outside every mask that came with NEAR_BRIGHT_OBJECT
\* set and kept it
C17_Witness ==
    /\ pc = "bitset" /\ res.status = "ok" /\ Len(targs) = 2
    /\ targs[1].DESI_TARGET = {"ELG"}
    /\ res.desi_target[1] = {"ELG", "IN_BRIGHT_OBJECT", "NEAR_BRIGHT_OBJECT"}
    /\ targs[2].DESI_TARGET = {"ELG", "NEAR_BRIGHT_OBJECT"}
    /\ FlagBits(is_bright_source(targs, sourcemask),
                is_in_bright_mask(targs, sourcemask, FALSE), 2) = {}
    /\ res.desi_target[2] = {"ELG", "NEAR_BRIGHT_OBJECT"}

\* ---------------------------------------------------------------------------
\* Merged target lists
\* ---------------------------------------------------------------------------

\* largest number of rows of a redshift catalog
MaxZcat == 2

\* priorities of a target class in the states UNOBS, MORE_ZGOOD, MORE_ZWARN and
\* DONE, and the observing conditions it is observed in (desitarget.targetmask)
ClassInfo(name) ==
    CASE name = "ELG" ->
             [UNOBS |-> 3000, MORE_ZGOOD |-> 3000, MORE_ZWARN |-> 3000, DONE |-> 2,
              obsconditions |-> {"DARK", "GRAY"}]
      [] name = "LRG" ->
             [UNOBS |-> 3200, MORE_ZGOOD |-> 3200, MORE_ZWARN |-> 3200, DONE |-> 2,
              obsconditions |-> {"DARK"}]
      [] name = "QSO" ->
             [UNOBS |-> 3400, MORE_ZGOOD |-> 3350, MORE_ZWARN |-> 3300, DONE |-> 2,
              obsconditions |-> {"DARK"}]
      [] name = "BGS_ANY" ->
             [UNOBS |-> 2100, MORE_ZGOOD |-> 1000, MORE_ZWARN |-> 2100, DONE |-> 2,
              obsconditions |-> {"BRIGHT"}]
      [] OTHER ->
             [UNOBS |-> 0, MORE_ZGOOD |-> 0, MORE_ZWARN |-> 0, DONE |-> 0,
              obsconditions |-> {"DARK", "GRAY", "BRIGHT"}]

\* calc_priority(targets, zcat, obscon) of desitarget.targets: row by row, the
\* largest priority, over the classes of the target that are observed in obscon,
\* of the state that NUMOBS, NUMOBS_MORE and ZWARN put the target in
calc_priority(targets, ztargets, oc) ==
    LET State(z) ==
            IF z.NUMOBS = 0 THEN "UNOBS"
            ELSE IF z.NUMOBS_MORE = 0 THEN "DONE"
            ELSE IF z.ZWARN = 0 THEN "MORE_ZGOOD" ELSE "MORE_ZWARN"
        Of(name, st) ==
            IF ClassInfo(name).obsconditions \cap oc = {} THEN 0
            ELSE IF st = "UNOBS" THEN ClassInfo(name).UNOBS
            ELSE IF st = "DONE" THEN ClassInfo(name).DONE
            ELSE IF st = "MORE_ZGOOD" THEN ClassInfo(name).MORE_ZGOOD
            ELSE ClassInfo(name).MORE_ZWARN
        Largest(S) == IF S = {} THEN 0 ELSE CHOOSE x \in S : \A y \in S : y <= x
        Row(t, z) == Largest({Of(name, State(z)) : name \in t.DESI_TARGET})
    IN  [k \in 1..Len(ztargets) |-> Row(targets[k], ztargets[k])]

\* make_mtl(targets, obscon, zcat, trim) for targets of the survey sv; strict
\* says whether numpy refuses an empty array of dtype float64 as an index
\* (it does from 1.12 on, and took it with a DeprecationWarning before)
make_mtl(targets, oc, zc, trim, sv, strict) ==
    LET n == Len(targets)
        ids == {targets[i].TARGETID : i \in 1..n}
        \* lines 78-84: zcat rows that are not in the target list are ignored
        Kept(rows) == SelectSeq(rows, LAMBDA z : z.TARGETID \in ids)
        \* lines 104-106: the dictionary keeps the last index of each TARGETID
        D(tid) == CHOOSE i \in 1..n :
                      /\ targets[i].TARGETID = tid
                      /\ \A j \in (i + 1)..n : targets[j].TARGETID # tid
        Zmatcher(rows) ==
            IF zc.given THEN [k \in 1..Len(rows) |-> D(rows[k].TARGETID)]
            ELSE [k \in 1..n |-> k]
        \* lines 115-119: without a zcat every target is unobserved
        Ztargets(rows) ==
            IF zc.given THEN rows
            ELSE [k \in 1..n |-> [TARGETID |-> targets[k].TARGETID, NUMOBS |-> 0,
                                  Z |-> -10, ZWARN |-> -1, SPECTYPE |-> ""]]
        \* lines 130-149
        NumobsMore(t, z) ==
            IF /\ sv = "main" /\ "DARK" \in oc /\ zc.given
               /\ z.SPECTYPE = "QSO" /\ z.ZWARN = 0 /\ z.Z < 21 /\ z.NUMOBS > 0
            THEN 0
            ELSE IF sv # "cmx" /\ "BRIGHT" \in oc /\ "BGS_ANY" \in t.DESI_TARGET
            THEN 1
            ELSE IF t.NUMOBS_INIT > z.NUMOBS THEN t.NUMOBS_INIT - z.NUMOBS ELSE 0
        WithMore(zm, zt) ==
            [k \in 1..Len(zt) |->
                zt[k] @@ [NUMOBS_MORE |-> NumobsMore(targets[zm[k]], zt[k])]]
        \* lines 157-159
        Zeroed(zt, priority) ==
            [k \in 1..Len(zt) |-> IF priority[k] <= 2 THEN 0 ELSE zt[k].NUMOBS_MORE]
        \* lines 169-174: the INIT values, then the scatter through zmatcher,
        \* in which the last row written to an index stays
        Last(zm, i) == CHOOSE k \in 1..Len(zm) :
                           zm[k] = i /\ \A l \in (k + 1)..Len(zm) : zm[l] # i
        Mtl(zm, priority, more) ==
            [i \in 1..n |->
                targets[i] @@
                IF \E k \in 1..Len(zm) : zm[k] = i
                THEN [PRIORITY |-> priority[Last(zm, i)],
                      NUMOBS_MORE |-> more[Last(zm, i)]]
                ELSE [PRIORITY |-> targets[i].PRIORITY_INIT,
                      NUMOBS_MORE |-> targets[i].NUMOBS_INIT]]
        \* lines 177-183
        Trimmed(mtl) ==
            IF trim THEN SelectSeq(mtl, LAMBDA r : r.NUMOBS_MORE > 0) ELSE mtl
        Finish(zm, zt, priority) == Trimmed(Mtl(zm, priority, Zeroed(zt, priority)))
        Update(zm, zt) ==
            Finish(zm, zt, calc_priority([k \in 1..Len(zm) |-> targets[zm[k]]], zt, oc))
        Matched(rows) ==
            IF zc.given /\ Len(rows) = 0 /\ strict
            THEN [status |-> "IndexError", mtl |-> <<>>]
            ELSE [status |-> "ok",
                  mtl |-> Update(Zmatcher(rows), WithMore(Zmatcher(rows), Ztargets(rows)))]
    IN  Matched(Kept(zc.rows))

\* a row of a target table: a primary target with the initial values of its class
MtlTarg(id, bits, pinit, ninit) ==
    [TARGETID |-> id, DESI_TARGET |-> bits, PRIORITY_INIT |-> pinit, NUMOBS_INIT |-> ninit]

\* the rows that target tables are made of: the classes of the tests, a QSO that
\* is also an ELG, a bright-time galaxy, a BAD_SKY location, and a secondary
\* target that finalize_secondary flagged as a duplicate, with PRIORITY_INIT = -1
MtlTargSet ==
    {MtlTarg(0, {"ELG"}, 3000, 1), MtlTarg(0, {"SCND_ANY"}, -1, 1),
     MtlTarg(1, {"QSO"}, 3400, 4), MtlTarg(1, {"BGS_ANY"}, 2100, 1),
     MtlTarg(2, {"QSO", "ELG"}, 3400, 4), MtlTarg(2, {"BAD_SKY"}, 0, 0)}

\* a row of a redshift catalog; Z is in tenths
Zrow(id, numobs, z, zwarn, spectype) ==
    [TARGETID |-> id, NUMOBS |-> numobs, Z |-> z, ZWARN |-> zwarn, SPECTYPE |-> spectype]

\* the rows that redshift catalogs are made of; TARGETID 9 is in no target table
ZrowSet ==
    {Zrow(0, 1, 10, 0, "GALAXY"), Zrow(0, 1, 25, 4, "GALAXY"),
     Zrow(1, 1, 10, 0, "QSO"), Zrow(1, 1, 25, 0, "QSO"), Zrow(1, 0, -10, -1, ""),
     Zrow(2, 1, 5, 0, "GALAXY"), Zrow(9, 1, 10, 0, "GALAXY")}

NoMtl == [status |-> "none", mtl |-> <<>>, trim |-> FALSE]

\* target tables and redshift catalogs have one row for each TARGETID
InitMtl ==
    /\ pc = "mtl"
    /\ LET UniqueIds(rows) ==
               \A i, j \in 1..Len(rows) : i # j => rows[i].TARGETID # rows[j].TARGETID
       IN  /\ targs \in {t \in SeqsUpTo(MtlTargSet, MaxTargs) : UniqueIds(t)}
           /\ zcat \in {NoZcat}
                       \cup {[given |-> TRUE, rows |-> r] :
                                r \in {z \in {<<>>} \cup SeqsUpTo(ZrowSet, MaxZcat) :
                                          UniqueIds(z)}}
    /\ obscon \in {{"DARK", "GRAY"}, {"BRIGHT"}}
    /\ survey \in {"main", "sv1"}
    /\ scxtargs = <<>> /\ primtargs = <<>>
    /\ objs = <<>> /\ bands = <<>> /\ maglim = <<>>
    /\ sourcemask = <<>>
    /\ inonly_arg = FALSE /\ nperradius = 0
    /\ res = NoMtl /\ acc = NoMtl
    /\ cov = {} /\ nshards = 0

\* make_mtl(targets, obscon, zcat = zcat, trim = trim)
RunMakeMtl ==
    /\ pc = "mtl"
    /\ \E trim, strict \in BOOLEAN :
          res' = make_mtl(targs, obscon, zcat, trim, survey, strict) @@ [trim |-> trim]
    /\ pc' = "merged"
    /\ UNCHANGED <<builderArgs, mtlArgs, scxtargs, primtargs, targs, sourcemask, inonly_arg, nperradius,
                   cov, acc, nshards>>

NextMtl == RunMakeMtl

SpecMtl == InitMtl /\ [][NextMtl]_vars

\* C19 as stated: in the table that make_mtl returns, every row with
\* PRIORITY <= 2 has NUMOBS_MORE = 0, whatever the targets, obscon and zcat,
\* the targets that a partial zcat does not list included.
C19_DoneMeansNoMoreObs ==
    (pc = "merged" /\ res.status = "ok") =>
        \A i \in 1..Len(res.mtl) : res.mtl[i].PRIORITY <= 2 => res.mtl[i].NUMOBS_MORE = 0

\* make_mtl has returned, untrimmed, for a flagged duplicate secondary target
\* and a QSO, with a zcat that lists only the QSO
C19_Witness ==
    /\ pc = "merged" /\ res.status = "ok" /\ ~res.trim
    /\ zcat.given /\ Len(zcat.rows) = 1 /\ zcat.rows[1].TARGETID = 1
    /\ Len(targs) = 2 /\ targs[1].PRIORITY_INIT = -1 /\ targs[1].NUMOBS_INIT = 1
    /\ targs[2].TARGETID = 1
    /\ res.mtl[1].PRIORITY = -1 /\ res.mtl[1].NUMOBS_MORE = 1

\* C20 as stated: with a zcat, make_mtl returns a table in which each TARGETID
\* has the PRIORITY and NUMOBS_MORE that it has for every other order of the rows
\* of zcat, and in which the targets that zcat does not list have
\* PRIORITY = PRIORITY_INIT and NUMOBS_MORE = NUMOBS_INIT; this for a zcat that
\* covers any subset of the targets.
C20_JoinOnTargetId ==
    LET Permuted(rows) ==
            {[k \in 1..Len(rows) |-> rows[p[k]]] :
                p \in {q \in [1..Len(rows) -> 1..Len(rows)] :
                          \A i, j \in 1..Len(rows) : q[i] = q[j] => i = j}}
    IN
    (pc = "merged" /\ zcat.given) =>
        /\ res.status = "ok"
        /\ \A rows \in Permuted(zcat.rows) :
               make_mtl(targs, obscon, [given |-> TRUE, rows |-> rows],
                        res.trim, survey, FALSE).mtl = res.mtl
        /\ ~res.trim => Len(res.mtl) = Len(targs)
        /\ \A i \in 1..Len(res.mtl) :
               (\A k \in 1..Len(zcat.rows) : zcat.rows[k].TARGETID # res.mtl[i].TARGETID)
                   => /\ res.mtl[i].PRIORITY = res.mtl[i].PRIORITY_INIT
                      /\ res.mtl[i].NUMOBS_MORE = res.mtl[i].NUMOBS_INIT

\* make_mtl has ended in IndexError for two targets and a zcat whose only row is
\* of a TARGETID that is not in the target list
C20_Witness ==
    /\ pc = "merged" /\ res.status = "IndexError"
    /\ Len(targs) = 2 /\ zcat.given /\ Len(zcat.rows) = 1 /\ zcat.rows[1].TARGETID = 9

\* ---------------------------------------------------------------------------
\* Secondary targets
\* ---------------------------------------------------------------------------

\* largest number of secondary targets, and of primary matches
MaxScx == 3
MaxPrim == 3

\* sep = 1 arcsec, the separation at which secondaries are matched to themselves
ScndSep == 10000

\* duplicates(seq): the index sets of the values that occur more than once in seq
duplicates(seq) ==
    {locs \in {{i \in 1..Len(seq) : seq[i] = seq[k]} : k \in 1..Len(seq)} :
        Cardinality(locs) > 1}

\* np.argmax of column col over the rows at locs: the first row that has the
\* largest value; ArgMaxLast is the last such row
ArgMaxLast(rows, locs, col) ==
    CHOOSE i \in locs :
        /\ \A j \in locs : rows[j][col] <= rows[i][col]
        /\ \A j \in locs : rows[j][col] = rows[i][col] => j <= i

ArgMax(rows, locs, col) ==
    CHOOSE i \in locs :
        /\ \A j \in locs : rows[j][col] <= rows[i][col]
        /\ \A j \in locs : rows[j][col] = rows[i][col] => i <= j

\* the rows that the loop over duplicates(rows[col]) collects in alldups: every
\* row of a group but its np.argmax in PRIORITY_INIT
AllDups(rows, col) ==
    UNION {locs \ {ArgMax(rows, locs, "PRIORITY_INIT")} :
              locs \in duplicates([i \in 1..Len(rows) |-> rows[i][col]])}

\* desitarget.targets.initial_priority_numobs(scnd=True): the largest UNOBS
\* priority over the bits set in SCND_TARGET
initial_priority_numobs(scnd_target) ==
    CHOOSE x \in {1000 + 100 * b : b \in scnd_target} :
        \A y \in {1000 + 100 * b : b \in scnd_target} : y <= x

\* add_primary_info(scxtargs, priminfodir), with prim the rows of the files of
\* priminfodir (no row: no file)
add_primary_info(scx, prim) ==
    LET Id(r) == 1000 * r.SCND_ORDER + r.SCND_TARGET_INIT
        Ids(rows) == {Id(rows[i]) : i \in 1..Len(rows)}
        \* np.delete(primtargs, alldups)
        Retained(alldups) ==
            SelectSeq([i \in 1..Len(prim) |-> prim[i] @@ [index |-> i]],
                      LAMBDA r : r.index \notin alldups)
        Matching(kept) ==
            SelectSeq(scx, LAMBDA r : Id(r) \in Ids(kept))
        Updated(kept) ==
            [i \in 1..Len(scx) |->
                IF Id(scx[i]) \in Ids(kept)
                THEN [scx[i] EXCEPT !.TARGETID =
                         (CHOOSE r \in {kept[k] : k \in 1..Len(kept)} :
                              Id(r) = Id(scx[i])).TARGETID]
                ELSE scx[i]]
        Match(kept) ==
            \* assert len(sprimids) == len(primids); assert set(scxids[scxii]) == sprimids
            IF Cardinality(Ids(kept)) # Len(kept) \/ Ids(Matching(kept)) # Ids(kept)
            THEN [status |-> "AssertionError", rows |-> <<>>, discarded |-> 0]
            \* primii[np.argsort(scxids[scxii])] = np.argsort(primids)
            ELSE IF Len(Matching(kept)) # Len(kept)
            THEN [status |-> "ValueError", rows |-> <<>>, discarded |-> 0]
            ELSE [status |-> "ok", rows |-> Updated(kept),
                  discarded |-> Len(prim) - Len(kept)]
    IN  IF Len(prim) = 0 THEN [status |-> "ok", rows |-> scx, discarded |-> 0]
        \* np.hstack of the empty list alldups
        ELSE IF duplicates([i \in 1..Len(prim) |-> prim[i].TARGETID]) = {}
        THEN [status |-> "ValueError", rows |-> <<>>, discarded |-> 0]
        ELSE Match(Retained(AllDups(prim, "TARGETID")))

\* finalize_secondary(scxtargs, scnd_mask, sep, darkbright = False)
finalize_secondary(scx, sep) ==
    LET n == Len(scx)
        nomatch(i) == scx[i].TARGETID = <<-1>>
        brxid(i) == brickid(scx[i].RA, scx[i].DEC)
        \* the rank of SCND_ORDER among the rows of the same brick and bit
        objid(i) ==
            Cardinality({j \in 1..n :
                /\ brxid(j) = brxid(i)
                /\ scx[j].SCND_TARGET_INIT = scx[i].SCND_TARGET_INIT
                /\ \/ scx[j].SCND_ORDER < scx[i].SCND_ORDER
                   \/ scx[j].SCND_ORDER = scx[i].SCND_ORDER /\ j < i})
        targetid(i) == encode_targetid(objid(i), brxid(i), scx[i].SCND_TARGET_INIT, 0)
        Assigned == [i \in 1..n |-> IF nomatch(i) THEN targetid(i) ELSE scx[i].TARGETID]
        \* w, and the pairs m1 > m2 of c.search_around_sky(c, sep), as row indices
        w(i) == ~scx[i].OVERRIDE /\ nomatch(i)
        Later(i) == {j \in (i + 1)..n : w(j) /\ SepLessEq(scx[i], scx[j], sep)}
        \* TARGETID[w[m2]] = TARGETID[w[m1]]: the right-hand side is read before
        \* anything is written, and the last pair written to a row stays
        Matched(ids) ==
            [i \in 1..n |->
                IF w(i) /\ Later(i) # {}
                THEN ids[CHOOSE j \in Later(i) : \A k \in Later(i) : k <= j]
                ELSE ids[i]]
        \* the bits of the non-OVERRIDE rows that share a TARGETID, or-ed
        Bits(ids, i) ==
            IF scx[i].OVERRIDE THEN scx[i].SCND_TARGET
            ELSE UNION {scx[j].SCND_TARGET :
                           j \in {k \in 1..n : ~scx[k].OVERRIDE /\ ids[k] = ids[i]}}
        Merged(ids) ==
            [i \in 1..n |-> [scx[i] EXCEPT !.TARGETID = ids[i],
                                           !.SCND_TARGET = Bits(ids, i)]]
        Done(rows, alldups) ==
            [i \in 1..n |->
                [rows[i] EXCEPT !.PRIORITY_INIT =
                    IF i \in alldups THEN -1
                    ELSE initial_priority_numobs(rows[i].SCND_TARGET)]]
        Flagged(rows) ==
            \* np.hstack of the empty list alldups
            IF duplicates([i \in 1..n |-> rows[i].TARGETID]) = {}
            THEN [status |-> "ValueError", rows |-> <<>>]
            ELSE [status |-> "ok", rows |-> Done(rows, AllDups(rows, "TARGETID"))]
    IN  \* if len(set(targetid)) != len(targetid): raise ValueError; each of the
        \* steps after it works on the array that the step before it left
        IF \E i, j \in 1..n : i # j /\ targetid(i) = targetid(j)
        THEN [status |-> "ValueError", rows |-> <<>>]
        ELSE CHOOSE r \in {Flagged(rows) :
                              rows \in {Merged(ids) :
                                           ids \in {Matched(a) : a \in {Assigned}}}} : TRUE

\* a secondary target: position, OVERRIDE, bit number, SCND_ORDER, the TARGETID
\* (<<-1>> for none) and the PRIORITY_INIT it comes with
Scx(ra, override, bit, order, targetid, priority) ==
    [RA |-> ra, DEC |-> 0, OVERRIDE |-> override, SCND_TARGET |-> {bit},
     SCND_TARGET_INIT |-> bit, SCND_ORDER |-> order, TARGETID |-> targetid,
     PRIORITY_INIT |-> priority]

\* secondaries 0.8" apart in a row (each within sep of the next, the first and the
\* third not), one across the brick edge that is within sep of the first two, an
\* OVERRIDE target, and two that carry the TARGETID of the same primary
ScxSet ==
    {Scx(0, FALSE, 1, 0, <<-1>>, 100),
     Scx(8 * (Arcsec \div 10), FALSE, 1, 1, <<-1>>, 200),
     Scx(16 * (Arcsec \div 10), FALSE, 2, 0, <<-1>>, 200),
     Scx(-(Arcsec \div 10), FALSE, 1, 3, <<-1>>, 100),
     Scx(8 * (Arcsec \div 10), TRUE, 2, 1, <<-1>>, 300),
     Scx(4 * (Arcsec \div 10), FALSE, 1, 2, encode_targetid(7, 2, 3000, 0), 3000),
     Scx(5 * Arcsec, FALSE, 2, 2, encode_targetid(7, 2, 3000, 0), 3400)}

\* the primary matches: the secondary that matched (bit number, SCND_ORDER) and
\* the TARGETID and PRIORITY_INIT of the primary. Secondary (bit 1, order 0)
\* matched the primaries 7 and 8, and primary 7 once more; secondary (1, 1) matched
\* primary 7, and secondary (2, 0) primary 9
PrimSet ==
    {[SCND_TARGET_INIT |-> m[1], SCND_ORDER |-> m[2],
      TARGETID |-> encode_targetid(m[3], 2, 3000, 0), PRIORITY_INIT |-> m[4]] :
        m \in {<<1, 0, 7, 3000>>, <<1, 0, 8, 3400>>, <<1, 0, 7, 3200>>,
               <<1, 1, 7, 3000>>, <<2, 0, 9, 3200>>}}

\* a secondary target is one row of one input file, so that no row occurs twice;
\* the secondaries that add_primary_info is given have no TARGETID yet
InitScnd ==
    /\ pc = "scnd"
    /\ LET Tables(S, len) ==
               {t \in SeqsUpTo(S, len) : \A i, j \in 1..Len(t) : i # j => t[i] # t[j]}
       IN  \/ /\ primtargs = <<>>
              /\ scxtargs \in Tables(ScxSet, MaxScx)
           \/ /\ primtargs \in Tables(PrimSet, MaxPrim)
              /\ scxtargs \in Tables({r \in ScxSet : r.TARGETID = <<-1>>}, MaxScx)
    /\ zcat = NoZcat /\ obscon = {} /\ survey = "main"
    /\ objs = <<>> /\ bands = <<>> /\ maglim = <<>>
    /\ targs = <<>> /\ sourcemask = <<>>
    /\ inonly_arg = FALSE /\ nperradius = 0
    /\ res = NoMask /\ acc = NoMask
    /\ cov = {} /\ nshards = 0

RunAddPrimaryInfo ==
    /\ pc = "scnd"
    /\ res' = add_primary_info(scxtargs, primtargs)
    /\ pc' = "primed"
    /\ UNCHANGED <<builderArgs, mtlArgs, scxtargs, primtargs, targs, sourcemask, inonly_arg,
                   nperradius, cov, acc, nshards>>

RunFinalizeSecondary ==
    /\ pc = "scnd"
    /\ res' = finalize_secondary(scxtargs, ScndSep)
    /\ pc' = "finalized"
    /\ UNCHANGED <<builderArgs, mtlArgs, scxtargs, primtargs, targs, sourcemask, inonly_arg,
                   nperradius, cov, acc, nshards>>

NextScnd == RunAddPrimaryInfo \/ RunFinalizeSecondary

SpecScnd == InitScnd /\ [][NextScnd]_vars

\* rows i and j of scxtargs are secondaries without OVERRIDE and without a primary
\* match that lie within sep of each other
SelfMatch(i, j) ==
    /\ ~scxtargs[i].OVERRIDE /\ scxtargs[i].TARGETID = <<-1>>
    /\ ~scxtargs[j].OVERRIDE /\ scxtargs[j].TARGETID = <<-1>>
    /\ SepLessEq(scxtargs[i], scxtargs[j], ScndSep)

\* C21 as stated: in what finalize_secondary returns, any two secondaries without
\* OVERRIDE and without a primary match that lie within sep of each other have
\* the same TARGETID, in pairs, in mutually matching groups and in chains.
C21_SelfMatchesShareTargetId ==
    (pc = "finalized" /\ res.status = "ok") =>
        \A i, j \in 1..Len(scxtargs) :
            SelfMatch(i, j) => res.rows[i].TARGETID = res.rows[j].TARGETID

\* finalize_secondary has returned for a chain: three secondaries of which the
\* first and the second, and the second and the third, are within sep of each
\* other, and the first and the third are not
C21_Witness ==
    /\ pc = "finalized" /\ res.status = "ok" /\ Len(scxtargs) = 3
    /\ SelfMatch(1, 2) /\ SelfMatch(2, 3) /\ ~SelfMatch(1, 3)
    /\ res.rows[1].TARGETID # res.rows[2].TARGETID
    /\ res.rows[2].TARGETID = res.rows[3].TARGETID

\* C22: in what finalize_secondary returns, a row keeps a PRIORITY_INIT other
\* than -1 exactly if, among the rows that share its TARGETID, it is the one
\* with the highest input PRIORITY_INIT, the first of them on a tie; all other
\* rows of the group have -1, and a row with a TARGETID of its own never has -1.
C22_OneRowPerGroupKeepsPriority ==
    (pc = "finalized" /\ res.status = "ok") =>
        \A i \in 1..Len(res.rows) :
            (res.rows[i].PRIORITY_INIT # -1)
                <=> \A j \in 1..Len(res.rows) :
                        (j # i /\ res.rows[j].TARGETID = res.rows[i].TARGETID)
                            => \/ scxtargs[j].PRIORITY_INIT < scxtargs[i].PRIORITY_INIT
                               \/ /\ scxtargs[j].PRIORITY_INIT = scxtargs[i].PRIORITY_INIT
                                  /\ i < j

\* finalize_secondary has returned two rows that share a TARGETID and came with
\* the same PRIORITY_INIT, the first of which kept a priority, and a third row
\* with a TARGETID of its own
C22_Witness ==
    /\ pc = "finalized" /\ res.status = "ok" /\ Len(res.rows) = 3
    /\ res.rows[1].TARGETID = res.rows[2].TARGETID
    /\ scxtargs[1].PRIORITY_INIT = scxtargs[2].PRIORITY_INIT
    /\ res.rows[1].PRIORITY_INIT > 0 /\ res.rows[2].PRIORITY_INIT = -1
    /\ res.rows[3].TARGETID # res.rows[1].TARGETID
    /\ res.rows[3].PRIORITY_INIT > 0

\* rows i and j of primtargs are matches of one secondary (same SCND_ORDER and bit
\* number) to primaries with different TARGETIDs
TwoPrimaries(i, j) ==
    /\ primtargs[i].SCND_ORDER = primtargs[j].SCND_ORDER
    /\ primtargs[i].SCND_TARGET_INIT = primtargs[j].SCND_TARGET_INIT
    /\ primtargs[i].TARGETID # primtargs[j].TARGETID

\* C24 as stated: when one secondary matched several primaries with different
\* TARGETIDs, add_primary_info is left, after discarding duplicates, with at most
\* one primary match for each secondary, so that neither of its assertions fails.
C24_OnePrimaryPerSecondary ==
    (pc = "primed" /\ \E i, j \in 1..Len(primtargs) : TwoPrimaries(i, j))
        => res.status # "AssertionError"

\* add_primary_info has ended in AssertionError for a secondary that matched two
\* primaries and matched one of them twice
C24_Witness ==
    /\ pc = "primed" /\ res.status = "AssertionError"
    /\ Len(scxtargs) = 1 /\ Len(primtargs) = 3
    /\ TwoPrimaries(1, 2) /\ primtargs[3].TARGETID = primtargs[1].TARGETID
    /\ \A i \in 1..3 : primtargs[i].SCND_ORDER = scxtargs[1].SCND_ORDER
                          /\ primtargs[i].SCND_TARGET_INIT = scxtargs[1].SCND_TARGET_INIT

\* C30 as stated: on input without duplicates the duplicate removal does nothing:
\* add_primary_info, given primary matches of distinct TARGETIDs to distinct
\* secondaries of scxtargs, returns without error and discards no match, and
\* finalize_secondary, given secondaries none of which shares a primary or lies
\* within sep of another, returns without error and with no priority set to -1.
C30_NoDuplicatesNoOp ==
    /\ (/\ pc = "primed"
        /\ \A i, j \in 1..Len(primtargs) :
               i # j => primtargs[i].TARGETID # primtargs[j].TARGETID
        /\ \A i \in 1..Len(primtargs) :
               /\ \E k \in 1..Len(scxtargs) :
                      /\ scxtargs[k].SCND_ORDER = primtargs[i].SCND_ORDER
                      /\ scxtargs[k].SCND_TARGET_INIT = primtargs[i].SCND_TARGET_INIT
               /\ \A j \in 1..Len(primtargs) : ~TwoPrimaries(i, j))
           => res.status = "ok" /\ res.discarded = 0
    /\ (/\ pc = "finalized"
        /\ \A i, j \in 1..Len(scxtargs) :
               i # j => /\ ~SelfMatch(i, j)
                        /\ \/ scxtargs[i].TARGETID = <<-1>>
                           \/ scxtargs[i].TARGETID # scxtargs[j].TARGETID)
           => /\ res.status = "ok"
              /\ \A i \in 1..Len(res.rows) : res.rows[i].PRIORITY_INIT # -1

\* add_primary_info has ended in ValueError for two secondaries and their matches
\* to two different primaries
C30_Witness ==
    /\ pc = "primed" /\ res.status = "ValueError"
    /\ Len(scxtargs) = 2 /\ Len(primtargs) = 2
    /\ primtargs[1].TARGETID # primtargs[2].TARGETID
    /\ \A i \in 1..2 : /\ scxtargs[i].SCND_ORDER = primtargs[i].SCND_ORDER
                       /\ scxtargs[i].SCND_TARGET_INIT = primtargs[i].SCND_TARGET_INIT
    /\ scxtargs[1].SCND_TARGET_INIT # scxtargs[2].SCND_TARGET_INIT

\* ---------------------------------------------------------------------------
\* The largest BRICK_OBJID of each brick
\* ---------------------------------------------------------------------------

\* max_objid_bricks(targs): the dictionary as the set of its <<key, value>> pairs
max_objid_bricks(tg) ==
    LET n == Len(tg)
        brickmax == SeqMax([i \in 1..n |-> tg[i].BRICKID])
        \* np.histogram(range=[0, brickmax], bins=brickmax): bin b is [b, b + 1),
        \* and the last bin, [brickmax - 1, brickmax], is closed
        UpToBin(b, id) == id <= b \/ (b = brickmax - 1 /\ id = brickmax)
        InBin(b, id) == UpToBin(b, id) /\ (b = 0 \/ ~UpToBin(b - 1, id))
        \* np.cumsum(h) - 1 at the bins where h > 0
        maxind ==
            {Cardinality({i \in 1..n : UpToBin(b, tg[i].BRICKID)}) - 1 :
                b \in {c \in 0..(brickmax - 1) :
                          \E i \in 1..n : InBin(c, tg[i].BRICKID)}}
        \* sorted(zip(BRICKID, BRICK_OBJID)): row i comes before row j
        Before(i, j) ==
            \/ tg[i].BRICKID < tg[j].BRICKID
            \/ tg[i].BRICKID = tg[j].BRICKID /\ tg[i].BRICK_OBJID < tg[j].BRICK_OBJID
        Ordered(p) ==
            CHOOSE i \in 1..n :
                /\ Cardinality({j \in 1..n : Before(j, i)}) <= p
                /\ p < Cardinality({j \in 1..n : ~Before(i, j)})
    IN  IF brickmax < 1 THEN [status |-> "ValueError", maxobjid |-> {}]
        ELSE [status |-> "ok",
              maxobjid |-> {<<tg[Ordered(p)].BRICKID, tg[Ordered(p)].BRICK_OBJID>> :
                               p \in maxind}]

\* (BRICKID, BRICK_OBJID) of the targets: bricks next to each other and apart
BrickObjidSet ==
    {[BRICKID |-> b[1], BRICK_OBJID |-> b[2]] :
        b \in {<<1, 4>>, <<1, 9>>, <<2, 3>>, <<2, 7>>, <<3, 1>>, <<3, 6>>, <<5, 2>>, <<5, 8>>}}

InitObjid ==
    /\ pc = "objid"
    /\ targs \in SeqsUpTo(BrickObjidSet, MaxTargs)
    /\ sourcemask = <<>>
    /\ objs = <<>> /\ bands = <<>> /\ maglim = <<>> /\ NoMtlArgs
    /\ inonly_arg = FALSE /\ nperradius = 0
    /\ res = [status |-> "none", maxobjid |-> {}] /\ acc = NoTargs
    /\ cov = {} /\ nshards = 0

RunMaxObjidBricks ==
    /\ pc = "objid"
    /\ res' = max_objid_bricks(targs)
    /\ pc' = "counted"
    /\ UNCHANGED <<builderArgs, mtlArgs, scxtargs, primtargs, targs, sourcemask, inonly_arg,
                   nperradius, cov, acc, nshards>>

NextObjid == RunMaxObjidBricks

SpecObjid == InitObjid /\ [][NextObjid]_vars

\* C23 as stated: max_objid_bricks returns one key for each BRICKID that occurs in
\* the targets and no other key, and the value of a key is the largest
\* BRICK_OBJID of the targets of that brick.
C23_MaxObjidPerBrick ==
    (pc = "counted") =>
        /\ res.status = "ok"
        /\ res.maxobjid =
               {<<targs[i].BRICKID, targs[i].BRICK_OBJID>> : i \in
                   {k \in 1..Len(targs) :
                       \A j \in 1..Len(targs) :
                           targs[j].BRICKID = targs[k].BRICKID
                               => targs[j].BRICK_OBJID <= targs[k].BRICK_OBJID}}

\* max_objid_bricks has returned, for a target of the largest brick and a target
\* of the brick just below it, a dictionary with the key of the largest brick only
C23_Witness ==
    /\ pc = "counted" /\ res.status = "ok" /\ Len(targs) = 2
    /\ targs[1].BRICKID + 1 = targs[2].BRICKID
    /\ res.maxobjid = {<<targs[2].BRICKID, targs[2].BRICK_OBJID>>}

(***************************************************************************)
(* The in-only knob of is_in_bright_mask                                   *)
(***************************************************************************)
\* C25: the in-only knob is a pure optimisation: for every target and mask
\* catalog the call with inonly=True and the call with inonly=False end the same
\* way and return the same in_mask array, for circle-tested and ellipse-tested
\* masks alike.
C25_InOnlyIsPureOptimisation ==
    pc = "crossed" =>
        \A other \in {is_in_bright_mask(targs, sourcemask, ~inonly_arg)} :
            res.status = other.status /\ res.in_mask = other.in_mask

\* a target 7" from an EXTENDED mask of radius 0 and from a PSF mask of
\* IN_RADIUS 5": with inonly=True nothing is joined and an all-False in_mask is
\* returned, with inonly=False the search bound is 10" and the call raises
C25_Witness ==
    /\ pc = "crossed"
    /\ inonly_arg
    /\ sourcemask = <<Mask(0, 0, 0, 0, 0, "EXP"), Mask(0, 0, 5 * Arcsec, 0, 0, "PSF")>>
    /\ targs = <<Pos(7 * Arcsec, 0)>>
    /\ res.status = "ok"
    /\ res.in_mask = <<FALSE>>
    /\ is_in_bright_mask(targs, sourcemask, FALSE).status = "LinAlgError"

(***************************************************************************)
(* What mask_targets does to the rows it is given                          *)
(***************************************************************************)
\* C26: mask_targets never drops or reorders a real target: the input rows
\* without the BAD_SKY bit appear exactly once in the output, in the input order,
\* before every synthesized row and with every column other than DESI_TARGET
\* unchanged; the input rows that are missing from the output all carry BAD_SKY
\* and lie in a mask (IN_BRIGHT_OBJECT).
C26_RealTargetsKept ==
    (pc = "masked" /\ res.status = "ok") =>
        LET real(r)  == "BAD_SKY" \notin r.DESI_TARGET
            \* the rows made by append_safe_targets carry sky = 1 in TARGETID
            synth(r) == r.TARGETID[4] = 1
            given(r) == ~synth(r)
            Cols(s)  == [i \in 1..Len(s) |-> [s[i] EXCEPT !.DESI_TARGET = {}]]
            At(s, idx) == [i \in 1..Len(idx) |-> s[idx[i]]]
            Removable(in_mask, t) ==
                /\ "BAD_SKY" \in targs[t].DESI_TARGET
                /\ in_mask[t] \/ "IN_BRIGHT_OBJECT" \in targs[t].DESI_TARGET
        IN  /\ Cols(SelectSeq(res.targs, real)) = Cols(SelectSeq(targs, real))
            /\ \A i, j \in 1..Len(res.targs) :
                   (real(res.targs[i]) /\ synth(res.targs[j])) => i < j
            /\ \A in_mask \in {is_in_bright_mask(targs, sourcemask, FALSE).in_mask} :
                   \E K \in SUBSET (1..Len(targs)) :
                       /\ Cols(SelectSeq(res.targs, given))
                              = Cols(At(targs, SortedBricks(K)))
                       /\ \A t \in (1..Len(targs)) \ K : Removable(in_mask, t)

\* mask_targets has returned a table in which a real target that lies in a mask
\* is kept and flagged, an input BAD_SKY row that lies in a mask is gone, and
\* synthesized rows follow
C26_Witness ==
    /\ pc = "masked" /\ res.status = "ok"
    /\ targs = <<Targ(0, 0, {"BAD_SKY"}, 101, 3000), Targ(0, 0, {"ELG"}, 1, 3000)>>
    /\ Len(res.targs) > 1
    /\ res.targs[1].BRICK_OBJID = 1
    /\ "IN_BRIGHT_OBJECT" \in res.targs[1].DESI_TARGET
    /\ \A t \in 2..Len(res.targs) : res.targs[t].TARGETID[4] = 1

(***************************************************************************)
(* Safe locations against the containment test of their own mask           *)
(***************************************************************************)
\* C27: every safe location that generate_safe_locations emits for a mask M is
\* reported as not inside M's own IN zone by the containment test that
\* is_in_bright_mask uses for M's shape kind: separation < IN_RADIUS for PSF/REX
\* masks, is_in_ellipse with IN_RADIUS otherwise.
C27_SafeLocationsOutsideOwnMask ==
    (pc = "located" /\ res.status = "ok") =>
        \A k \in 1..Len(sourcemask) :
            LET m == sourcemask[EmitOrder(sourcemask)[k]]
                first == DueBefore(sourcemask, nperradius, k)
                InZone(p) ==
                    IF IsCircle(m) THEN SepLess(p, m, m.IN_RADIUS)
                    ELSE is_in_ellipse(p.RA, p.DEC, m.RA, m.DEC,
                                       m.IN_RADIUS, m.E1, m.E2).val
            IN  \A j \in 1..Nsafe(m, nperradius) :
                    first + j <= Len(res.locs) => ~InZone(res.locs[first + j])

\* a REX mask of 1" and a PSF mask of 1.5" centered 1" apart, two locations each:
\* the second location of the REX mask is returned inside the REX mask's own
\* IN_RADIUS
C27_Witness ==
    /\ pc = "located" /\ res.status = "ok"
    /\ sourcemask = <<Mask(0, 0, Arcsec, 0, 0, "REX"),
                      Mask(Arcsec, 0, 15 * (Arcsec \div 10), 0, 0, "PSF")>>
    /\ nperradius = 1
    /\ Len(res.locs) = 4
    /\ SepLess(res.locs[2], sourcemask[1], sourcemask[1].IN_RADIUS)

(***************************************************************************)
(* The rows that append_safe_targets adds                                  *)
(***************************************************************************)
\* C28: append_safe_targets returns the input targets unchanged as a prefix,
\* followed by one new row per generated safe location; every appended row has
\* the BAD_SKY bit set and a BRICK_OBJID strictly greater than the number of
\* objects recorded for its brick in the data release, and no two appended rows
\* share the same (BRICKID, BRICK_OBJID) pair.
C28_AppendedRows ==
    (pc = "appended" /\ res.status = "ok") =>
        LET n     == Len(targs)
            added == (n + 1)..Len(res.targs)
            At(p) == {t \in added : res.targs[t].RA = p.RA /\ res.targs[t].DEC = p.DEC}
            \* one row at the position of each location
            OnePerLocation(locs) ==
                /\ Len(res.targs) = n + Len(locs)
                /\ \A k \in 1..Len(locs) :
                       Cardinality(At(locs[k]))
                           = Cardinality({j \in 1..Len(locs) : locs[j] = locs[k]})
        IN  /\ Len(res.targs) >= n
            /\ SubSeq(res.targs, 1, n) = targs
            /\ \E ragged \in BOOLEAN :
                   \E safe \in {generate_safe_locations(sourcemask, 1, ragged)} :
                       safe.status = "ok" /\ OnePerLocation(safe.locs)
            /\ \A t \in added :
                   /\ "BAD_SKY" \in res.targs[t].DESI_TARGET
                   /\ res.targs[t].BRICK_OBJID > hnobjs(res.targs[t].BRICKID)
            /\ \A t, u \in added :
                   (res.targs[t].BRICKID = res.targs[u].BRICKID
                       /\ res.targs[t].BRICK_OBJID = res.targs[u].BRICK_OBJID) => t = u

\* append_safe_targets has added rows to two targets, several of them in one
\* brick and some in the other
C28_Witness ==
    /\ pc = "appended" /\ res.status = "ok"
    /\ Len(targs) = 2
    /\ \E t, u, v \in 3..Len(res.targs) :
          /\ t # u
          /\ res.targs[t].BRICKID = res.targs[u].BRICKID
          /\ res.targs[v].BRICKID # res.targs[t].BRICKID
          /\ res.targs[t].BRICK_OBJID # res.targs[u].BRICK_OBJID

(***************************************************************************)
(* IN implies NEAR                                                         *)
(***************************************************************************)
\* C29: for every mask catalog whose records have NEAR_RADIUS = 2 * IN_RADIUS,
\* is_in_bright_mask (inonly=False) never returns a target with in_mask True and
\* near_mask False, and set_target_bits never sets IN_BRIGHT_OBJECT on a target
\* without also setting NEAR_BRIGHT_OBJECT.
C29_InImpliesNear ==
    (pc = "bitset" /\ res.status = "ok"
        /\ \A m \in 1..Len(sourcemask) :
              sourcemask[m].NEAR_RADIUS = 2 * sourcemask[m].IN_RADIUS) =>
        \A inmask \in {is_in_bright_mask(targs, sourcemask, FALSE)} :
            \A t \in 1..Len(targs) :
                /\ inmask.in_mask[t] => inmask.near_mask[t]
                /\ ("IN_BRIGHT_OBJECT" \in res.desi_target[t]
                        /\ "IN_BRIGHT_OBJECT" \notin targs[t].DESI_TARGET)
                       => "NEAR_BRIGHT_OBJECT" \in res.desi_target[t]

\* set_target_bits has flagged one target as IN and NEAR a mask, of a catalog of
\* an ellipse-tested and a circle-tested mask, and has left the other target as
\* it was
C29_Witness ==
    /\ pc = "bitset" /\ res.status = "ok"
    /\ Len(targs) = 2 /\ Len(sourcemask) = 2
    /\ ~IsCircle(sourcemask[1]) /\ IsCircle(sourcemask[2])
    /\ sourcemask[1].NEAR_RADIUS = 2 * sourcemask[1].IN_RADIUS
    /\ sourcemask[2].NEAR_RADIUS = 2 * sourcemask[2].IN_RADIUS
    /\ targs[1].DESI_TARGET = {"ELG"}
    /\ res.desi_target[1] = {"ELG", "IN_BRIGHT_OBJECT", "NEAR_BRIGHT_OBJECT"}
    /\ targs[2].DESI_TARGET = {}
    /\ res.desi_target[2] = {}

====
